---- MODULE Spec2Model ----
(***************************************************************************)
(* A model of ofcIndexedDB (src/src/ofcIndexedDB.ts): the record access    *)
(* primitives over object stores whose keyPath is "id".                    *)
(*                                                                         *)
(* Encoding of values.  Strings that the code tests for truthiness (ids,   *)
(* ISO-8601 timestamps) are naturals: EmptyStr (0) is the empty string "", *)
(* a positive number is a non-empty string, and the order of the numbers   *)
(* is the lexicographic order of the strings.  A record is a function from *)
(* the field names it carries to their values; a field that is not in the  *)
(* DOMAIN reads as undefined.                                              *)
(*                                                                         *)
(* The host engine starts the transactions over one object store in the    *)
(* order in which they were created, readonly ones side by side: txq holds *)
(* the callers whose transactions have not finished, in that order.        *)
(***************************************************************************)
EXTENDS Integers, Sequences, FiniteSets, TLC

\* ---- bounds ----
MaxTime == 2      \* the timestamp source returns values in 1..MaxTime
MaxOps == 3       \* calls one caller issues, each awaited before the next
MaxConcOps == 2   \* calls two callers issue without awaiting each other
MaxApiOps == 3    \* calls one caller issues when requests can fail
MaxStoreOps == 2  \* calls one caller issues through defined and bound stores
MaxConnOps == 4   \* calls of the two callers that connect, close and drop
MaxReadOps == 2   \* calls two callers issue when reads run beside writes
MaxLiveOps == 2   \* calls two callers issue when the engine is fair
MaxLifeOps == 5   \* calls one caller issues from connect to drop and connect
MaxOwnOps == 3    \* calls two callers issue, each on ids of its own
MaxCollOps == 2   \* calls one caller issues on two object stores

\* ---- values ----
EmptyStr == 0
Procs == {"p1", "p2"}
\* an id the callers choose themselves; it differs from every generated id
CallerKeys == {MaxOps + MaxConcOps + 1}
Times == 1..MaxTime
DomainVals == {1, 2}
ReservedFields == {"id", "inserted", "updated", "deleted", "is_delete"}
DomainFields == {"a", "b"}
Fields == ReservedFields \cup DomainFields

VARIABLES store, clock, genCount, ops, txq, pc, call, idb

vars == <<store, clock, genCount, ops, txq, pc, call, idb>>

\* ---- records ----
\* `{} as T`, the sentinel get resolves with when nothing is found
EmptyObj == [f \in {} |-> EmptyStr]

\* An object literal with one property
Obj1(f, v) == [g \in {f} |-> v]

\* { ...e, ...u }: the properties of e overlaid with those of u
Spread(e, u) ==
  [f \in (DOMAIN e) \cup (DOMAIN u) |-> IF f \in DOMAIN u THEN u[f] ELSE e[f]]

\* rec with property f set to v
SetField(r, f, v) == Spread(r, Obj1(f, v))

\* JavaScript truthiness of r.f: undefined, "" and false are falsy
Truthy(r, f) ==
  /\ f \in DOMAIN r
  /\ IF f = "is_delete" THEN r[f] = TRUE ELSE r[f] # EmptyStr

\* ---- read primitives, as the engine evaluates them on a store ----
\* the secondary indexes the creation callback declares, each on the field
\* of its own name (tests 22-27: createIndex('city', 'city', {unique: false}))
IndexNames == {"b"}

\* no index argument
NoIndex == ""

\* request.result of a lookup that matched nothing
Undefined == [f \in {"undefined"} |-> EmptyStr]

\* objectStore.get(key)
StoreGet(st, key) == IF key \in DOMAIN st THEN st[key] ELSE Undefined

\* the primary keys of the records that have an entry in the index: those
\* that carry the indexed field
IndexedKeys(st, index) == {k \in DOMAIN st : index \in DOMAIN st[k]}

\* objectIndex.get(key): the first record, in primary-key order, whose
\* indexed field is key
IndexGet(st, index, key) ==
  LET hits == {k \in IndexedKeys(st, index) : st[k][index] = key}
  IN IF hits = {} THEN Undefined
     ELSE st[CHOOSE k \in hits : \A j \in hits : k <= j]

\* a get that resolves with request.result as it is
GetBy_raw(st, key, index) ==
  IF index # NoIndex THEN IndexGet(st, index, key) ELSE StoreGet(st, key)

\* get, lines 171-226: by index when one is given, else by id; {} when
\* the result is undefined
GetBy(st, key, index) ==
  LET result == IF index # NoIndex THEN IndexGet(st, index, key) ELSE StoreGet(st, key)
  IN IF result # Undefined THEN result ELSE EmptyObj

\* get(db, store, key)
Get(st, key) == GetBy(st, key, NoIndex)

\* a count of the records that are not soft-deleted
Count_live(st) == Cardinality({k \in DOMAIN st : ~Truthy(st[k], "is_delete")})

\* count, line 250: objectStore.count()
Count(st) == Cardinality(DOMAIN st)

\* the keys of S in ascending order, the order of a forward cursor
RECURSIVE SortedKeys(_)
SortedKeys(S) ==
  IF S = {} THEN <<>>
  ELSE LET m == CHOOSE x \in S : \A y \in S : x <= y
       IN <<m>> \o SortedKeys(S \ {m})

\* a key range that excludes its bounds
InRange_open(k, hasFrom, from, hasTo, to) ==
  IF hasFrom /\ hasTo
  THEN IF from = to THEN k = from ELSE from < k /\ k < to
  ELSE IF hasFrom THEN from < k
  ELSE IF hasTo THEN k < to
  ELSE TRUE

\* list, lines 293-328: k lies in the key range built from from/to
\* (hasFrom, hasTo: the bound is not undefined)
InRange(k, hasFrom, from, hasTo, to) ==
  IF hasFrom /\ hasTo
  THEN IF from = to THEN k = from ELSE from <= k /\ k <= to
  ELSE IF hasFrom THEN from <= k
  ELSE IF hasTo THEN k <= to
  ELSE TRUE

\* getAll: the records under the given keys, in that order
RECURSIVE GetAll(_, _)
GetAll(st, keys) ==
  IF keys = <<>> THEN <<>> ELSE <<st[Head(keys)]>> \o GetAll(st, Tail(keys))

\* the primary keys in S in the order of the index: by indexed value, then
\* by primary key
RECURSIVE SortedByIndex(_, _, _)
SortedByIndex(st, index, S) ==
  IF S = {} THEN <<>>
  ELSE LET m == CHOOSE x \in S : \A y \in S :
                  \/ st[x][index] < st[y][index]
                  \/ st[x][index] = st[y][index] /\ x <= y
       IN <<m>> \o SortedByIndex(st, index, S \ {m})

\* list, lines 276-341: search is the index when one is given, else the
\* store; getAll over the key range (from <= to when both are given)
ListBy(st, index, hasFrom, from, hasTo, to) ==
  IF index # NoIndex
  THEN GetAll(st, SortedByIndex(st, index,
                {k \in IndexedKeys(st, index) : InRange(st[k][index], hasFrom, from, hasTo, to)}))
  ELSE GetAll(st, SortedKeys({k \in DOMAIN st : InRange(k, hasFrom, from, hasTo, to)}))

\* list(db, store, undefined, from, to)
List(st, hasFrom, from, hasTo, to) == ListBy(st, NoIndex, hasFrom, from, hasTo, to)

\* the predicates callers pass to select: every record; b is 2; b is 2 read
\* through a property access that throws on a record without b (as the
\* record.title.includes(...) of the example at line 361 does without title)
Wheres == {"all", "b2", "b2strict"}

\* where(rec) throws
Throws(w, rec) == w = "b2strict" /\ "b" \notin DOMAIN rec

\* where(rec) returns true
Where(w, rec) ==
  IF w = "all" THEN TRUE ELSE "b" \in DOMAIN rec /\ rec["b"] = 2

\* select without the skip of lines 409-417: soft-deleted records are evaluated too
RECURSIVE SelectScan_noSkip(_, _, _, _, _)
SelectScan_noSkip(st, keys, w, includeDeleted, resultSet) ==
  IF keys = <<>> THEN resultSet
  ELSE SelectScan_noSkip(st, Tail(keys), w, includeDeleted,
                         IF ~Throws(w, st[Head(keys)]) /\ Where(w, st[Head(keys)])
                         THEN Append(resultSet, st[Head(keys)]) ELSE resultSet)

\* select without the try/catch of lines 420-432: the exception leaves the
\* handler before cursor.continue(), so the scan ends at that record
RECURSIVE SelectScan_noCatch(_, _, _, _, _)
SelectScan_noCatch(st, keys, w, includeDeleted, resultSet) ==
  IF keys = <<>> THEN resultSet
  ELSE LET rec == st[Head(keys)]
       IN IF ~includeDeleted /\ Truthy(rec, "is_delete")
          THEN SelectScan_noCatch(st, Tail(keys), w, includeDeleted, resultSet)
          ELSE IF Throws(w, rec) THEN resultSet
          ELSE SelectScan_noCatch(st, Tail(keys), w, includeDeleted,
                                  IF Where(w, rec) THEN Append(resultSet, rec) ELSE resultSet)

\* select with the skip applied whatever includeDeleted is
RECURSIVE SelectScan_alwaysSkip(_, _, _, _, _)
SelectScan_alwaysSkip(st, keys, w, includeDeleted, resultSet) ==
  IF keys = <<>> THEN resultSet
  ELSE LET rec == st[Head(keys)]
       IN IF Truthy(rec, "is_delete")
          THEN SelectScan_alwaysSkip(st, Tail(keys), w, includeDeleted, resultSet)
          ELSE SelectScan_alwaysSkip(st, Tail(keys), w, includeDeleted,
                                     IF ~Throws(w, rec) /\ Where(w, rec)
                                     THEN Append(resultSet, rec) ELSE resultSet)

\* select, lines 389-437: one cursor step per record, in key order; a
\* soft-deleted record is skipped unless includeDeleted; the predicate runs
\* inside try/catch, so a throw adds nothing and the cursor continues
RECURSIVE SelectScan(_, _, _, _, _)
SelectScan(st, keys, w, includeDeleted, resultSet) ==
  IF keys = <<>> THEN resultSet
  ELSE LET rec == st[Head(keys)]
       IN IF ~includeDeleted /\ Truthy(rec, "is_delete")
          THEN SelectScan(st, Tail(keys), w, includeDeleted, resultSet)
          ELSE SelectScan(st, Tail(keys), w, includeDeleted,
                          IF ~Throws(w, rec) /\ Where(w, rec)
                          THEN Append(resultSet, rec) ELSE resultSet)

\* select(db, store, where, {includeDeleted})
Select(st, w, includeDeleted) ==
  SelectScan(st, SortedKeys(DOMAIN st), w, includeDeleted, <<>>)

\* select(db, store, where): includeDeleted = options?.includeDeleted ?? false
SelectDefault(st, w) == Select(st, w, FALSE)

\* a generator that returns the same id on every call
GenId_reuse(n) == 1

\* ---- the id the default generator returns on its n-th call ----
\* crypto.randomUUID(): non-empty, never a value seen before
GenId(n) == n + 1

\* ids a caller can name: the one it chose and the ones upsert returned
KnownKeys == (1..genCount) \cup CallerKeys

\* now(): the values the timestamp source can return after it returned t;
\* it never goes backwards
Now(t) == {t, t + 1} \cap Times

\* the defaults with is_delete set to false whatever mergeRec carries
ApplyDefaults_flagOff(upsertRec, m, gid, tIns, tUpd) ==
  LET m1 == SetField(m, "id", IF ~Truthy(m, "id") THEN gid ELSE m["id"])
      m2 == SetField(m1, "inserted",
                     IF ~Truthy(m1, "inserted") THEN tIns ELSE m1["inserted"])
      m3 == SetField(m2, "updated",
                     IF Truthy(upsertRec, "updated") THEN upsertRec["updated"] ELSE tUpd)
      m4 == SetField(m3, "deleted",
                     IF ~Truthy(m3, "deleted") THEN EmptyStr ELSE m3["deleted"])
  IN SetField(m4, "is_delete", FALSE)

\* the defaults with inserted set from the timestamp source on every write
ApplyDefaults_reinsert(upsertRec, m, gid, tIns, tUpd) ==
  LET m1 == SetField(m, "id", IF ~Truthy(m, "id") THEN gid ELSE m["id"])
      m2 == SetField(m1, "inserted", tIns)
      m3 == SetField(m2, "updated",
                     IF Truthy(upsertRec, "updated") THEN upsertRec["updated"] ELSE tUpd)
      m4 == SetField(m3, "deleted",
                     IF ~Truthy(m3, "deleted") THEN EmptyStr ELSE m3["deleted"])
  IN SetField(m4, "is_delete",
              IF ~Truthy(m4, "is_delete") THEN FALSE ELSE m4["is_delete"])

\* the defaults with deleted blanked unless the input carries it
ApplyDefaults_clearDeleted(upsertRec, m, gid, tIns, tUpd) ==
  LET m1 == SetField(m, "id", IF ~Truthy(m, "id") THEN gid ELSE m["id"])
      m2 == SetField(m1, "inserted",
                     IF ~Truthy(m1, "inserted") THEN tIns ELSE m1["inserted"])
      m3 == SetField(m2, "updated",
                     IF Truthy(upsertRec, "updated") THEN upsertRec["updated"] ELSE tUpd)
      m4 == SetField(m3, "deleted",
                     IF Truthy(upsertRec, "deleted") THEN upsertRec["deleted"] ELSE EmptyStr)
  IN SetField(m4, "is_delete",
              IF ~Truthy(m4, "is_delete") THEN FALSE ELSE m4["is_delete"])

\* the defaults with id generated only when mergeRec has no id property
ApplyDefaults_keepId(upsertRec, m, gid, tIns, tUpd) ==
  LET m1 == IF "id" \in DOMAIN m THEN m ELSE SetField(m, "id", gid)
      m2 == SetField(m1, "inserted",
                     IF ~Truthy(m1, "inserted") THEN tIns ELSE m1["inserted"])
      m3 == SetField(m2, "updated",
                     IF Truthy(upsertRec, "updated") THEN upsertRec["updated"] ELSE tUpd)
      m4 == SetField(m3, "deleted",
                     IF ~Truthy(m3, "deleted") THEN EmptyStr ELSE m3["deleted"])
  IN SetField(m4, "is_delete",
              IF ~Truthy(m4, "is_delete") THEN FALSE ELSE m4["is_delete"])

\* the defaults with updated always taken from the timestamp source
ApplyDefaults_stampUpdated(upsertRec, m, gid, tIns, tUpd) ==
  LET m1 == SetField(m, "id", IF ~Truthy(m, "id") THEN gid ELSE m["id"])
      m2 == SetField(m1, "inserted",
                     IF ~Truthy(m1, "inserted") THEN tIns ELSE m1["inserted"])
      m3 == SetField(m2, "updated", tUpd)
      m4 == SetField(m3, "deleted",
                     IF ~Truthy(m3, "deleted") THEN EmptyStr ELSE m3["deleted"])
      m5 == SetField(m4, "is_delete",
                     IF ~Truthy(m4, "is_delete") THEN FALSE ELSE m4["is_delete"])
  IN m5

\* ---- upsert: lines 510-523, the defaults applied to mergeRec ----
\* upsertRec is the input, m the merged record, gid the value genId() would
\* return, tIns and tUpd the values the two now() calls would return
ApplyDefaults(upsertRec, m, gid, tIns, tUpd) ==
  LET m1 == SetField(m, "id", IF ~Truthy(m, "id") THEN gid ELSE m["id"])
      m2 == SetField(m1, "inserted",
                     IF ~Truthy(m1, "inserted") THEN tIns ELSE m1["inserted"])
      m3 == SetField(m2, "updated",
                     IF Truthy(upsertRec, "updated") THEN upsertRec["updated"] ELSE tUpd)
      m4 == SetField(m3, "deleted",
                     IF ~Truthy(m3, "deleted") THEN EmptyStr ELSE m3["deleted"])
      m5 == SetField(m4, "is_delete",
                     IF ~Truthy(m4, "is_delete") THEN FALSE ELSE m4["is_delete"])
  IN m5

\* no merge: the input replaces the stored record
MergeRec_inputOnly(upsertRec, existRec) == upsertRec

\* a merge that takes only the reserved fields of the stored record
MergeRec_reservedOnly(upsertRec, existRec) ==
  IF Truthy(existRec, "id")
  THEN Spread([f \in (DOMAIN existRec) \cap ReservedFields |-> existRec[f]], upsertRec)
  ELSE upsertRec

\* lines 492-506: the merge of the input with the record the get returned
MergeRec(upsertRec, existRec) ==
  IF Truthy(existRec, "id") THEN Spread(existRec, upsertRec) ELSE upsertRec

\* ---- inputs the callers pass ----
\* a new domain record without id, as in the tests (61-72, 98-109)
FreshInputs ==
  { [f \in DomainFields |-> 1],
    SetField([f \in DomainFields |-> 1], "is_delete", TRUE) }

\* { id, b: v }: a partial update of one domain field
PartialInputs ==
  { SetField(Obj1("id", k), "b", v) : k \in KnownKeys, v \in DomainVals }

\* { id, f: v }: a partial update that names one reserved field
OverrideInputs ==
  { SetField(Obj1("id", k), f, v) : k \in KnownKeys, f \in {"inserted", "updated"}, v \in Times }
    \cup { SetField(Obj1("id", k), "deleted", EmptyStr) : k \in KnownKeys }
    \cup { SetField(Obj1("id", k), "is_delete", v) : k \in KnownKeys, v \in BOOLEAN }

\* a record returned by get, one domain field changed, passed back to upsert
\* (readme.md 79-85)
RoundTripInputs ==
  { SetField(store[k], "b", v) : k \in DOMAIN store, v \in DomainVals }

UpsertInputs == FreshInputs \cup PartialInputs \cup OverrideInputs \cup RoundTripInputs

\* the inputs of the callers that name no reserved field but id
PlainInputs == FreshInputs \cup PartialInputs

\* keys passed to delete: the known ids and the empty string (test 169-172)
DeleteKeys == KnownKeys \cup {EmptyStr}

\* ---- object stores ----
\* the object store the callers use
StoreName == "s"

\* a second object store of the same database
OtherName == "t"

\* ---- call slots ----
\* op, logical: the primitive called; rec: upsertRec; exist: existRec;
\* merge: mergeRec; nows: the values now() returned during the call;
\* key: delete's key; res: the id upsert resolved with; ok: delete or clear
\* resolved true; via, defaults: the call was made through a defined store
\* with these defaults; arg: the arguments of a read; pos: records the select
\* cursor has visited; out: resultSet, and the value a read resolved with;
\* txs: transactions the call has opened, nested calls included; settles:
\* times resolve or reject of the call's promise ran; err: the message of the
\* Error it rejected with; mode: the mode of the transaction the call has
\* open; thrown: the exception the engine threw when the call opened its
\* request; coll: the object store the call names
NoCall == [op |-> "none", logical |-> FALSE, rec |-> EmptyObj, exist |-> EmptyObj,
           merge |-> EmptyObj, nows |-> {}, key |-> EmptyStr, res |-> EmptyStr,
           ok |-> FALSE, via |-> "primitive", defaults |-> EmptyObj,
           arg |-> EmptyObj, pos |-> 0, out |-> <<>>,
           txs |-> 0, settles |-> 0, err |-> "", cbs |-> 0, warns |-> 0,
           mode |-> "none", thrown |-> "", coll |-> StoreName]

\* ---- the database ----
\* the database as the engine keeps it: its version (0: it does not exist),
\* its object stores, each caller's connection handle, the open and
\* delete requests waiting, in the order they were made, and the records
\* of the second object store (those of the first are the variable store)
NoDb == [version |-> 0, stores |-> {}, conn |-> [p \in Procs |-> "none"], reqq |-> <<>>,
         other |-> [k \in {} |-> EmptyObj]]

\* the database after every caller has run connect(name, 1, createFunc)
OpenDb == [version |-> 1, stores |-> {StoreName}, conn |-> [p \in Procs |-> "open"],
           reqq |-> <<>>, other |-> [k \in {} |-> EmptyObj]]

Init ==
  /\ store = [k \in {} |-> EmptyObj]
  /\ clock = 1
  /\ genCount = 0
  /\ ops = 0
  /\ txq = <<>>
  /\ pc = [p \in Procs |-> "idle"]
  /\ call = [p \in Procs |-> NoCall]
  /\ idb = OpenDb

\* caller p awaits nothing and may issue its next call; n bounds the calls
\* of a behaviour
Idle(p, n) == pc[p] \in {"idle", "done", "failed"} /\ ops < n

\* db.transaction(store, mode) succeeds on an open handle of a database
\* that has the store
Usable(p) == idb.conn[p] = "open" /\ StoreName \in idb.stores

\* caller p may call a primitive that opens its transaction
CanCall(p, n) == Idle(p, n) /\ Usable(p)

\* db.transaction(store, mode).objectStore(store): the records of the
\* object store p's call names
Recs(p) == IF call[p].coll = StoreName THEN store ELSE idb.other

\* a request that writes to the first object store whatever the call names
WriteRecs_first(p, recs) ==
  /\ store' = recs
  /\ idb' = idb

\* the request of p's readwrite transaction leaves recs in the object
\* store p's call names
WriteRecs(p, recs) ==
  /\ store' = IF call[p].coll = StoreName THEN recs ELSE store
  /\ idb' = IF call[p].coll = StoreName THEN idb ELSE [idb EXCEPT !.other = recs]

\* the engine runs the requests of p's transaction: the transactions on an
\* object store start in the order they were created, a readwrite one when
\* every earlier one has finished, a readonly one when every earlier
\* readwrite one has finished, so that readonly transactions run side by side
Runs(p) ==
  \E i \in 1..Len(txq) :
    /\ txq[i] = p
    /\ \A j \in 1..(i - 1) :
         \/ call[txq[j]].coll # call[p].coll
         \/ call[p].mode = "readonly" /\ call[txq[j]].mode = "readonly"

\* the transactions that are left when p's has finished
Finish(q, p) == SelectSeq(q, LAMBDA x : x # p)

\* upsert lines 491-532 once existRec is known (or no get was needed): merge,
\* defaults, then db.transaction(store, "readwrite") and objectStore.put.
\* c is the call so far, c0 the last value the timestamp source returned,
\* q the transaction queue the put's transaction is appended to.
UpsertContinue(p, c, existRec, c0, q) ==
  LET upsertRec == c.rec
      m0 == MergeRec(upsertRec, existRec)
      needId  == ~Truthy(m0, "id")
      needIns == ~Truthy(m0, "inserted")
      needUpd == ~Truthy(upsertRec, "updated")
  IN \E tIns \in Now(c0) : \E tUpd \in Now(tIns) :
       /\ needIns \/ tIns = c0
       /\ needUpd \/ tUpd = tIns
       /\ call' = [call EXCEPT ![p] =
                     [c EXCEPT !.exist = existRec,
                               !.txs = c.txs + 1,
                               !.mode = "readwrite",
                               !.merge = ApplyDefaults(upsertRec, m0, GenId(genCount), tIns, tUpd),
                               !.nows = c.nows \cup (IF needIns THEN {tIns} ELSE {})
                                               \cup (IF needUpd THEN {tUpd} ELSE {})]]
       /\ genCount' = IF needId THEN genCount + 1 ELSE genCount
       /\ clock' = tUpd
       /\ pc' = [pc EXCEPT ![p] = "put"]
       /\ txq' = Append(q, p)

\* upsert lines 482-498 for call c: with a truthy id it awaits get (a
\* readonly transaction), otherwise it runs on to the put without suspending
UpsertStart(p, c, c0) ==
  IF Truthy(c.rec, "id")
  THEN /\ call' = [call EXCEPT ![p] = [c EXCEPT !.txs = c.txs + 1, !.mode = "readonly"]]
       /\ pc' = [pc EXCEPT ![p] = "get"]
       /\ txq' = Append(txq, p)
       /\ clock' = c0
       /\ UNCHANGED genCount
  ELSE UpsertContinue(p, c, EmptyObj, c0, txq)

\* ofcIndexedDB.upsert(db, store, rec) with rec one of inputs; base is
\* NoCall, or the slot of a call made through a defined store
UpsertCall(p, n, base, inputs) ==
  /\ CanCall(p, n)
  /\ \E rec \in inputs :
       UpsertStart(p, [base EXCEPT !.op = "upsert", !.rec = rec], clock)
  /\ ops' = ops + 1
  /\ UNCHANGED <<idb, store>>

\* an upsert that opens the transaction of its put inside the one of its get
UpsertGot_keepOpen(p) ==
  /\ pc[p] = "get"
  /\ Runs(p)
  /\ UpsertContinue(p, call[p], Get(store, call[p].rec["id"]), clock, txq)
  /\ UNCHANGED <<idb, store, ops>>

\* the internal get succeeds (lines 204-219) and upsert resumes (500-532)
UpsertGot(p) ==
  /\ pc[p] = "get"
  /\ Runs(p)
  /\ UpsertContinue(p, call[p], Get(Recs(p), call[p].rec["id"]), clock, Finish(txq, p))
  /\ UNCHANGED <<idb, store, ops>>

\* objectStore.put(mergeRec) overwrites by primary key
Put(st, rec) ==
  [k \in (DOMAIN st) \cup {rec["id"]} |-> IF k = rec["id"] THEN rec ELSE st[k]]

\* a put that merges again with the record stored at the time of the put
UpsertPut_remerge(p) ==
  /\ pc[p] = "put"
  /\ Runs(p)
  /\ store' = Put(store, Spread(Spread(call[p].merge, Get(store, call[p].merge["id"])),
                                Spread(call[p].rec, Obj1("id", call[p].merge["id"]))))
  /\ call' = [call EXCEPT ![p].res = call[p].merge["id"],
                          ![p].ok = (call[p].op = "delete"),
                          ![p].settles = call[p].settles + 1,
                          ![p].merge = EmptyObj]
  /\ pc' = [pc EXCEPT ![p] = "done"]
  /\ txq' = Finish(txq, p)
  /\ UNCHANGED <<idb, clock, genCount, ops>>

\* a logical delete that writes only when its get found a record
UpsertPut_ifFound(p) ==
  /\ pc[p] = "put"
  /\ Runs(p)
  /\ store' = IF call[p].op = "delete" /\ ~Truthy(call[p].exist, "id")
              THEN store ELSE Put(store, call[p].merge)
  /\ call' = [call EXCEPT ![p].res = call[p].merge["id"],
                          ![p].ok = (call[p].op = "delete"),
                          ![p].settles = call[p].settles + 1,
                          ![p].merge = EmptyObj]
  /\ pc' = [pc EXCEPT ![p] = "done"]
  /\ txq' = Finish(txq, p)
  /\ UNCHANGED <<idb, clock, genCount, ops>>

\* the put succeeds (line 535): upsert resolves with mergeRec.id; a logical
\* delete then returns true (line 580)
UpsertPut(p) ==
  /\ pc[p] = "put"
  /\ Runs(p)
  /\ WriteRecs(p, Put(Recs(p), call[p].merge))
  /\ call' = [call EXCEPT ![p].res = call[p].merge["id"],
                          ![p].ok = (call[p].op = "delete"),
                          ![p].settles = call[p].settles + 1,
                          ![p].merge = EmptyObj]
  /\ pc' = [pc EXCEPT ![p] = "done"]
  /\ txq' = Finish(txq, p)
  /\ UNCHANGED <<clock, genCount, ops>>

\* ofcIndexedDB.delete(db, store, key, {logical: true}), lines 573-577,
\* with key one of keys: upsert of {id: key, is_delete: true,
\* deleted: now()} with the same now
DeleteLogicalOf(p, n, base, keys) ==
  /\ CanCall(p, n)
  /\ \E key \in keys : \E tDel \in Now(clock) :
       UpsertStart(p,
         [base EXCEPT !.op = "delete", !.logical = TRUE, !.key = key, !.nows = {tDel},
            !.rec = SetField(SetField(Obj1("id", key), "is_delete", TRUE), "deleted", tDel)],
         tDel)
  /\ ops' = ops + 1
  /\ UNCHANGED <<idb, store>>

\* a logical delete of any key the callers know
DeleteLogicalCall(p, n, base) == DeleteLogicalOf(p, n, base, DeleteKeys)

\* ofcIndexedDB.delete(db, store, key), lines 585-592, with key one of
\* keys: a readwrite transaction and objectStore.delete(key)
DeletePhysicalOf(p, n, base, keys) ==
  /\ CanCall(p, n)
  /\ \E key \in keys :
       call' = [call EXCEPT ![p] = [base EXCEPT !.op = "delete", !.key = key, !.txs = 1,
                                                 !.mode = "readwrite"]]
  /\ pc' = [pc EXCEPT ![p] = "del"]
  /\ txq' = Append(txq, p)
  /\ ops' = ops + 1
  /\ UNCHANGED <<idb, store, clock, genCount>>

\* a physical delete of any key the callers know
DeletePhysicalCall(p, n, base) == DeletePhysicalOf(p, n, base, DeleteKeys)

\* a delete that removes nothing
Remove_none(st, key) == st

\* objectStore.delete(key): removes the record if there is one
Remove(st, key) == [k \in (DOMAIN st) \ {key} |-> st[k]]

\* a physical delete that resolves true only when it removed a record
DeleteDone_strict(p) ==
  /\ pc[p] = "del"
  /\ Runs(p)
  /\ store' = Remove(store, call[p].key)
  /\ call' = [call EXCEPT ![p].ok = (call[p].key \in DOMAIN store),
                          ![p].settles = call[p].settles + 1]
  /\ pc' = [pc EXCEPT ![p] = "done"]
  /\ txq' = Finish(txq, p)
  /\ UNCHANGED <<idb, clock, genCount, ops>>

\* the delete request succeeds (line 595): resolve(true)
DeleteDone(p) ==
  /\ pc[p] = "del"
  /\ Runs(p)
  /\ WriteRecs(p, Remove(Recs(p), call[p].key))
  /\ call' = [call EXCEPT ![p].ok = TRUE, ![p].settles = call[p].settles + 1]
  /\ pc' = [pc EXCEPT ![p] = "done"]
  /\ txq' = Finish(txq, p)
  /\ UNCHANGED <<clock, genCount, ops>>

\* ofcIndexedDB.clear(db, store), lines 625-628: a readwrite transaction
\* and objectStore.clear()
ClearCall(p, n, base) ==
  /\ CanCall(p, n)
  /\ call' = [call EXCEPT ![p] = [base EXCEPT !.op = "clear", !.txs = 1,
                                             !.mode = "readwrite"]]
  /\ pc' = [pc EXCEPT ![p] = "clr"]
  /\ txq' = Append(txq, p)
  /\ ops' = ops + 1
  /\ UNCHANGED <<idb, store, clock, genCount>>

\* a clear that leaves the soft-deleted records
RemoveAll_keepDeleted(st) == [k \in {j \in DOMAIN st : Truthy(st[j], "is_delete")} |-> st[k]]

\* objectStore.clear(): no record is left
RemoveAll(st) == [k \in {} |-> EmptyObj]

\* the clear request succeeds (line 631): resolve(true)
ClearDone(p) ==
  /\ pc[p] = "clr"
  /\ Runs(p)
  /\ WriteRecs(p, RemoveAll(Recs(p)))
  /\ call' = [call EXCEPT ![p].ok = TRUE, ![p].settles = call[p].settles + 1]
  /\ pc' = [pc EXCEPT ![p] = "done"]
  /\ txq' = Finish(txq, p)
  /\ UNCHANGED <<clock, genCount, ops>>

\* ---- reads as calls ----
\* the arguments callers pass to get, count, list and select
ReadArgs ==
  { [op |-> "get", key |-> k, index |-> NoIndex] : k \in DeleteKeys }
    \cup { [op |-> "get", key |-> 1, index |-> "b"] }
    \cup { [op |-> "count"] }
    \cup { [op |-> "list", index |-> i, hasFrom |-> FALSE, from |-> EmptyStr,
            hasTo |-> TRUE, to |-> 1] : i \in {NoIndex, "b"} }
    \cup { [op |-> "select", where |-> w, includeDeleted |-> d] :
            w \in Wheres, d \in BOOLEAN }

\* the value request.onsuccess of get (210-215), count (253) and list (334)
\* resolves with, on the store as it is when the request runs
ReadResult(st, arg) ==
  IF arg.op = "get" THEN <<GetBy(st, arg.key, arg.index)>>
  ELSE IF arg.op = "count" THEN <<Count(st)>>
  ELSE ListBy(st, arg.index, arg.hasFrom, arg.from, arg.hasTo, arg.to)

\* a read that opens its transaction in readwrite mode
ReadCall_readwrite(p, n, base, args) ==
  /\ CanCall(p, n)
  /\ \E arg \in args :
       /\ call' = [call EXCEPT ![p] = [base EXCEPT !.op = arg.op, !.arg = arg, !.txs = 1,
                                                  !.mode = "readwrite"]]
       /\ pc' = [pc EXCEPT ![p] = IF arg.op = "select" THEN "scan" ELSE "read"]
  /\ txq' = Append(txq, p)
  /\ ops' = ops + 1
  /\ UNCHANGED <<idb, store, clock, genCount>>

\* get, count, list or select is called with one of args: it opens one
\* readonly transaction (184, 247, 287, 380) and issues its request
ReadCall(p, n, base, args) ==
  /\ CanCall(p, n)
  /\ \E arg \in args :
       /\ call' = [call EXCEPT ![p] = [base EXCEPT !.op = arg.op, !.arg = arg, !.txs = 1,
                                                  !.mode = "readonly"]]
       /\ pc' = [pc EXCEPT ![p] = IF arg.op = "select" THEN "scan" ELSE "read"]
  /\ txq' = Append(txq, p)
  /\ ops' = ops + 1
  /\ UNCHANGED <<idb, store, clock, genCount>>

\* request.onsuccess of get, count or list: resolve with the result
ReadDone(p) ==
  /\ pc[p] = "read"
  /\ Runs(p)
  /\ call' = [call EXCEPT ![p].out = ReadResult(Recs(p), call[p].arg),
                          ![p].settles = call[p].settles + 1]
  /\ pc' = [pc EXCEPT ![p] = "done"]
  /\ txq' = Finish(txq, p)
  /\ UNCHANGED <<idb, store, clock, genCount, ops>>

\* select's request.onsuccess with a cursor (405-435): the record under the
\* cursor is skipped or evaluated, then cursor.continue()
SelectNext(p) ==
  /\ pc[p] = "scan"
  /\ Runs(p)
  /\ call[p].pos < Count(Recs(p))
  /\ call' = [call EXCEPT
       ![p].out = SelectScan(Recs(p), <<SortedKeys(DOMAIN Recs(p))[call[p].pos + 1]>>,
                             call[p].arg.where, call[p].arg.includeDeleted, call[p].out),
       ![p].pos = call[p].pos + 1]
  /\ UNCHANGED <<idb, store, clock, genCount, ops, txq, pc>>

\* a select whose handler returns without resolving when the cursor is null
SelectEnd_pending(p) ==
  /\ pc[p] = "scan"
  /\ Runs(p)
  /\ call[p].pos = Count(store)
  /\ txq' = Finish(txq, p)
  /\ UNCHANGED <<idb, store, clock, genCount, ops, call, pc>>

\* select's request.onsuccess without a cursor (395-403): resolve(resultSet)
SelectEnd(p) ==
  /\ pc[p] = "scan"
  /\ Runs(p)
  /\ call[p].pos = Count(Recs(p))
  /\ call' = [call EXCEPT ![p].settles = call[p].settles + 1]
  /\ pc' = [pc EXCEPT ![p] = "done"]
  /\ txq' = Finish(txq, p)
  /\ UNCHANGED <<idb, store, clock, genCount, ops>>

\* ---- engine errors ----
\* the messages of the Errors the primitives reject with
ErrGet == "Failed to get record."
ErrCount == "Failed to count records."
ErrList == "Failed to list records."
ErrSelect == "Failed to select records."
ErrUpsert == "Failed to insert/update record."
ErrDelete == "Failed to delete record."
ErrClear == "Failed to clear records."

\* the message of the onerror handler of the request p is waiting for: the
\* handler of the primitive that issued the request (222, 256, 337, 440,
\* 538, 598, 634)
OnErrorMessage(at, op) ==
  IF at = "get" THEN ErrGet
  ELSE IF at = "put" THEN ErrUpsert
  ELSE IF at = "del" THEN ErrDelete
  ELSE IF at = "clr" THEN ErrClear
  ELSE IF at = "scan" THEN ErrSelect
  ELSE IF op = "get" THEN ErrGet
  ELSE IF op = "count" THEN ErrCount
  ELSE ErrList

\* a failed request whose write stays in the store
RequestFails_written(p) ==
  /\ pc[p] \in {"get", "put", "del", "clr", "read", "scan"}
  /\ Runs(p)
  /\ call' = [call EXCEPT ![p].err = OnErrorMessage(pc[p], call[p].op),
                          ![p].settles = call[p].settles + 1,
                          ![p].merge = EmptyObj]
  /\ pc' = [pc EXCEPT ![p] = "failed"]
  /\ txq' = Finish(txq, p)
  /\ store' = IF pc[p] = "put" THEN Put(store, call[p].merge)
              ELSE IF pc[p] = "del" THEN Remove(store, call[p].key)
              ELSE IF pc[p] = "clr" THEN RemoveAll(store)
              ELSE store
  /\ UNCHANGED <<idb, clock, genCount, ops>>

\* the engine fails the request p is waiting for: request.onerror rejects,
\* the rejection passes through the awaits of upsert (498) and delete (577),
\* and the failed transaction writes nothing
RequestFails(p) ==
  /\ pc[p] \in {"get", "put", "del", "clr", "read", "scan"}
  /\ Runs(p)
  /\ call' = [call EXCEPT ![p].err = OnErrorMessage(pc[p], call[p].op),
                          ![p].settles = call[p].settles + 1,
                          ![p].merge = EmptyObj]
  /\ pc' = [pc EXCEPT ![p] = "failed"]
  /\ txq' = Finish(txq, p)
  /\ UNCHANGED <<idb, store, clock, genCount, ops>>

\* ---- defineStore and bindStore ----
\* the defaults passed to defineStore and bindStore: none, or logicalDelete
StoreDefaults ==
  {EmptyObj} \cup { Obj1("logicalDelete", v) : v \in BOOLEAN }

\* line 712: defaults?.logicalDelete ?? true
LogicalDelete(defaults) ==
  IF "logicalDelete" \in DOMAIN defaults THEN defaults["logicalDelete"] ELSE TRUE

\* the slot of a call made through a store defined with defaults
StoreCall(defaults) == [NoCall EXCEPT !.via = "store", !.defaults = defaults]

\* the where argument of a store's select: a predicate, or none
NoWhere == "none"

\* a store select that includes the soft-deleted records when the store
\* deletes logically
StoreReadArgs_same(defaults) ==
  { a \in ReadArgs : a.op # "select" }
    \cup { [op |-> "select", where |-> IF w = NoWhere THEN "all" ELSE w,
            includeDeleted |-> LogicalDelete(defaults)] : w \in Wheres \cup {NoWhere} }

\* lines 717-727: the store's list, get and count pass their arguments on;
\* its select passes where ?? (() => true) and includeDeleted: !logicalDelete
StoreReadArgs(defaults) ==
  { a \in ReadArgs : a.op # "select" }
    \cup { [op |-> "select", where |-> IF w = NoWhere THEN "all" ELSE w,
            includeDeleted |-> ~LogicalDelete(defaults)] : w \in Wheres \cup {NoWhere} }

\* the arguments a caller may add to a store's delete(db, key)
ExtraArgs == {EmptyObj} \cup { Obj1("logical", v) : v \in BOOLEAN }

\* a store delete that takes its mode from a further argument
DefinedDelete_perCall(p, n, defaults, extra) ==
  IF (IF "logical" \in DOMAIN extra THEN extra["logical"] ELSE LogicalDelete(defaults))
  THEN DeleteLogicalCall(p, n, StoreCall(defaults))
  ELSE DeletePhysicalCall(p, n, StoreCall(defaults))

\* lines 739-740: delete(db, key) calls the primitive with
\* {logical: logicalDelete, now}; a further argument is not read
DefinedDelete(p, n, defaults, extra) ==
  IF LogicalDelete(defaults)
  THEN DeleteLogicalCall(p, n, StoreCall(defaults))
  ELSE DeletePhysicalCall(p, n, StoreCall(defaults))

\* lines 717-727: list, select, get and count of a defined store
DefinedRead(p, n, defaults) == ReadCall(p, n, StoreCall(defaults), StoreReadArgs(defaults))

\* lines 729-737: upsert of a defined store, with the store's genId and now
DefinedUpsert(p, n, defaults) == UpsertCall(p, n, StoreCall(defaults), PlainInputs)

\* lines 742-743: clear of a defined store
DefinedClear(p, n, defaults) == ClearCall(p, n, StoreCall(defaults))

\* a bound store made without the defaults it was given
BoundDelete_noDefaults(p, n, defaults, extra) == DefinedDelete(p, n, EmptyObj, extra)

\* bindStore, lines 777-800: definedStore = defineStore(store, defaults),
\* and each method calls the definedStore method with the bound db
BoundRead(p, n, defaults) == DefinedRead(p, n, defaults)

BoundUpsert(p, n, defaults) == DefinedUpsert(p, n, defaults)

BoundDelete(p, n, defaults, extra) == DefinedDelete(p, n, defaults, extra)

BoundClear(p, n, defaults) == DefinedClear(p, n, defaults)

\* a call through a store made by defineStore
DefinedStoreCall(p, n) ==
  \E defaults \in StoreDefaults :
    \/ DefinedRead(p, n, defaults)
    \/ DefinedUpsert(p, n, defaults)
    \/ \E extra \in ExtraArgs : DefinedDelete(p, n, defaults, extra)
    \/ DefinedClear(p, n, defaults)

\* a call through a store made by bindStore
BoundStoreCall(p, n) ==
  \E defaults \in StoreDefaults :
    \/ BoundRead(p, n, defaults)
    \/ BoundUpsert(p, n, defaults)
    \/ \E extra \in ExtraArgs : BoundDelete(p, n, defaults, extra)
    \/ BoundClear(p, n, defaults)

\* ---- connect, drop, close ----
Versions == {1, 2}
\* connect called without a version
NoVersion == 0
\* the creation callbacks: none given, one that creates the object store
\* as createStoreV1 of the usage example does (lines 948-952;
\* createObjectStore throws when the store exists), one that throws
CreateFuncs == {"none", "create", "throw"}

ConnectArgs ==
  { [op |-> "connect", version |-> v, createFunc |-> f] :
      v \in Versions \cup {NoVersion}, f \in CreateFuncs }

\* line 72: version ? version : ofcIndexedDB.version
DbVersion(version) == IF version # 0 THEN version ELSE 1

ErrConnect == "Failed to connect to the database."
ErrDrop == "Failed to delete the database."
ErrClosedHandle == "InvalidStateError"
ErrNoStore == "NotFoundError"

\* a connection other than p's is open
OtherOpen(p) == \E q \in Procs \ {p} : idb.conn[q] = "open"

AnyOpen == \E q \in Procs : idb.conn[q] = "open"

\* the engine works on p's request
AtHead(p) == idb.reqq # <<>> /\ Head(idb.reqq) = p

\* connect lines 60-103: indexedDB.open(dbName, dbVersion) and the four
\* handlers; the promise is pending when connect returns
ConnectCall(p, n) ==
  /\ Idle(p, n)
  /\ idb.conn[p] # "open"
  /\ \E a \in ConnectArgs :
       call' = [call EXCEPT ![p] = [NoCall EXCEPT !.op = "connect", !.arg = a]]
  /\ pc' = [pc EXCEPT ![p] = "open"]
  /\ idb' = [idb EXCEPT !.reqq = Append(idb.reqq, p)]
  /\ ops' = ops + 1
  /\ UNCHANGED <<store, clock, genCount, txq>>

\* an onblocked that rejects
OpenBlocked_rejecting(p) ==
  /\ pc[p] = "open" /\ AtHead(p)
  /\ DbVersion(call[p].arg.version) > idb.version
  /\ OtherOpen(p)
  /\ call[p].warns = 0
  /\ call' = [call EXCEPT ![p].warns = 1, ![p].settles = call[p].settles + 1,
                          ![p].err = ErrConnect]
  /\ UNCHANGED <<store, clock, genCount, ops, txq, pc, idb>>

\* openResult.onblocked (line 84): an upgrade is needed and another
\* connection is open; the handler warns and the request stays pending
OpenBlocked(p) ==
  /\ pc[p] = "open" /\ AtHead(p)
  /\ DbVersion(call[p].arg.version) > idb.version
  /\ OtherOpen(p)
  /\ call[p].warns = 0
  /\ call' = [call EXCEPT ![p].warns = 1]
  /\ UNCHANGED <<store, clock, genCount, ops, txq, pc, idb>>

\* a connect that runs its callback whenever the database is opened
OpenSuccess_callback(p) ==
  /\ pc[p] = "open" /\ AtHead(p)
  /\ DbVersion(call[p].arg.version) = idb.version
  /\ idb' = [idb EXCEPT !.conn[p] = "open", !.reqq = Tail(idb.reqq),
                        !.stores = IF call[p].arg.createFunc = "create"
                                   THEN idb.stores \cup {StoreName} ELSE idb.stores]
  /\ call' = [call EXCEPT ![p].settles = call[p].settles + 1,
                          ![p].cbs = IF call[p].arg.createFunc = "none" THEN 0 ELSE 1]
  /\ pc' = [pc EXCEPT ![p] = "done"]
  /\ UNCHANGED <<store, clock, genCount, ops, txq>>

\* openResult.onsuccess (line 78) when the database has the requested
\* version: no upgradeneeded event, resolve(handle)
OpenSuccess(p) ==
  /\ pc[p] = "open" /\ AtHead(p)
  /\ DbVersion(call[p].arg.version) = idb.version
  /\ idb' = [idb EXCEPT !.conn[p] = "open", !.reqq = Tail(idb.reqq)]
  /\ call' = [call EXCEPT ![p].settles = call[p].settles + 1]
  /\ pc' = [pc EXCEPT ![p] = "done"]
  /\ UNCHANGED <<store, clock, genCount, ops, txq>>

\* openResult.onerror (line 81): the requested version is lower than the
\* database's, or the engine fails the request
OpenFails(p) ==
  /\ pc[p] = "open" /\ AtHead(p)
  /\ idb' = [idb EXCEPT !.reqq = Tail(idb.reqq)]
  /\ call' = [call EXCEPT ![p].settles = call[p].settles + 1, ![p].err = ErrConnect]
  /\ pc' = [pc EXCEPT ![p] = "failed"]
  /\ UNCHANGED <<store, clock, genCount, ops, txq>>

\* an upgrade whose throwing callback leaves the request without an event
Upgrade_swallow(p) ==
  /\ pc[p] = "open" /\ AtHead(p)
  /\ DbVersion(call[p].arg.version) > idb.version
  /\ ~OtherOpen(p)
  /\ LET f == call[p].arg.createFunc
         throws == f = "throw" \/ (f = "create" /\ StoreName \in idb.stores)
     IN /\ call' = [call EXCEPT ![p].cbs = IF f = "none" THEN 0 ELSE call[p].cbs + 1]
        /\ IF throws
           THEN /\ pc' = [pc EXCEPT ![p] = "stuck"]
                /\ UNCHANGED idb
           ELSE /\ pc' = [pc EXCEPT ![p] = "upgraded"]
                /\ idb' = [idb EXCEPT
                     !.version = DbVersion(call[p].arg.version),
                     !.stores = IF f = "create" THEN idb.stores \cup {StoreName}
                                ELSE idb.stores]
  /\ UNCHANGED <<store, clock, genCount, ops, txq>>

\* the upgradeneeded event (lines 87-93), fired when the requested version
\* is higher than the database's and no other connection is open: the
\* handler, set only when createFunc is given, calls createFunc(db); when
\* it throws, the engine aborts the upgrade and the database is as before
Upgrade(p) ==
  /\ pc[p] = "open" /\ AtHead(p)
  /\ DbVersion(call[p].arg.version) > idb.version
  /\ ~OtherOpen(p)
  /\ LET f == call[p].arg.createFunc
         throws == f = "throw" \/ (f = "create" /\ StoreName \in idb.stores)
     IN /\ call' = [call EXCEPT ![p].cbs = IF f = "none" THEN 0 ELSE call[p].cbs + 1]
        /\ IF throws
           THEN /\ pc' = [pc EXCEPT ![p] = "aborted"]
                /\ UNCHANGED idb
           ELSE /\ pc' = [pc EXCEPT ![p] = "upgraded"]
                /\ idb' = [idb EXCEPT
                     !.version = DbVersion(call[p].arg.version),
                     !.stores = IF f = "create" THEN idb.stores \cup {StoreName}
                                ELSE idb.stores]
  /\ UNCHANGED <<store, clock, genCount, ops, txq>>

\* openResult.onsuccess (line 78) after the upgrade: resolve(handle)
UpgradeDone(p) ==
  /\ pc[p] = "upgraded" /\ AtHead(p)
  /\ idb' = [idb EXCEPT !.conn[p] = "open", !.reqq = Tail(idb.reqq)]
  /\ call' = [call EXCEPT ![p].settles = call[p].settles + 1]
  /\ pc' = [pc EXCEPT ![p] = "done"]
  /\ UNCHANGED <<store, clock, genCount, ops, txq>>

\* openResult.onerror (line 81) after the aborted upgrade: the try/catch of
\* lines 89-99 encloses only the assignment of the handler, so the
\* rejection is the one of onerror
UpgradeAborted(p) ==
  /\ pc[p] = "aborted" /\ AtHead(p)
  /\ idb' = [idb EXCEPT !.reqq = Tail(idb.reqq)]
  /\ call' = [call EXCEPT ![p].settles = call[p].settles + 1, ![p].err = ErrConnect]
  /\ pc' = [pc EXCEPT ![p] = "failed"]
  /\ UNCHANGED <<store, clock, genCount, ops, txq>>

\* drop lines 134-154: indexedDB.deleteDatabase(dbName) and its handlers
DropCall(p, n) ==
  /\ Idle(p, n)
  /\ call' = [call EXCEPT ![p] = [NoCall EXCEPT !.op = "drop"]]
  /\ pc' = [pc EXCEPT ![p] = "drop"]
  /\ idb' = [idb EXCEPT !.reqq = Append(idb.reqq, p)]
  /\ ops' = ops + 1
  /\ UNCHANGED <<store, clock, genCount, txq>>

\* deleteResult.onblocked (line 152): a connection is open; the handler
\* warns and the request stays pending
DropBlocked(p) ==
  /\ pc[p] = "drop" /\ AtHead(p)
  /\ AnyOpen
  /\ call[p].warns = 0
  /\ call' = [call EXCEPT ![p].warns = 1]
  /\ UNCHANGED <<store, clock, genCount, ops, txq, pc, idb>>

\* a drop that closes the open connections and deletes at once
DropSuccess_forced(p) ==
  /\ pc[p] = "drop" /\ AtHead(p)
  /\ idb' = [version |-> 0, stores |-> {},
             conn |-> [q \in Procs |-> IF idb.conn[q] = "open" THEN "closed" ELSE idb.conn[q]],
             reqq |-> Tail(idb.reqq), other |-> [k \in {} |-> EmptyObj]]
  /\ store' = [k \in {} |-> EmptyObj]
  /\ call' = [call EXCEPT ![p].ok = TRUE, ![p].settles = call[p].settles + 1]
  /\ pc' = [pc EXCEPT ![p] = "done"]
  /\ UNCHANGED <<clock, genCount, ops, txq>>

\* a drop that empties the stores and leaves the database in place
DropSuccess_keepStores(p) ==
  /\ pc[p] = "drop" /\ AtHead(p)
  /\ ~AnyOpen
  /\ idb' = [idb EXCEPT !.reqq = Tail(idb.reqq)]
  /\ store' = [k \in {} |-> EmptyObj]
  /\ call' = [call EXCEPT ![p].ok = TRUE, ![p].settles = call[p].settles + 1]
  /\ pc' = [pc EXCEPT ![p] = "done"]
  /\ UNCHANGED <<clock, genCount, ops, txq>>

\* deleteResult.onsuccess (line 146): no connection is open, the engine has
\* deleted the database with its stores and records; resolve(true)
DropSuccess(p) ==
  /\ pc[p] = "drop" /\ AtHead(p)
  /\ ~AnyOpen
  /\ idb' = [idb EXCEPT !.version = 0, !.stores = {}, !.reqq = Tail(idb.reqq),
                        !.other = [k \in {} |-> EmptyObj]]
  /\ store' = [k \in {} |-> EmptyObj]
  /\ call' = [call EXCEPT ![p].ok = TRUE, ![p].settles = call[p].settles + 1]
  /\ pc' = [pc EXCEPT ![p] = "done"]
  /\ UNCHANGED <<clock, genCount, ops, txq>>

\* deleteResult.onerror (line 149)
DropFails(p) ==
  /\ pc[p] = "drop" /\ AtHead(p)
  /\ idb' = [idb EXCEPT !.reqq = Tail(idb.reqq)]
  /\ call' = [call EXCEPT ![p].settles = call[p].settles + 1, ![p].err = ErrDrop]
  /\ pc' = [pc EXCEPT ![p] = "failed"]
  /\ UNCHANGED <<store, clock, genCount, ops, txq>>

\* what a caller passes to close: null, or the handle it holds
NullHandle == "null"

CloseArgs(p) == IF idb.conn[p] = "none" THEN {NullHandle} ELSE {NullHandle, p}

\* a close that closes every connection
CloseCall_all(p, n) ==
  /\ Idle(p, n)
  /\ \E h \in CloseArgs(p) :
       /\ call' = [call EXCEPT ![p] =
            [NoCall EXCEPT !.op = "close", !.arg = Obj1("db", h),
                           !.ok = (h # NullHandle),
                           !.warns = IF h = NullHandle THEN 1 ELSE 0,
                           !.settles = 1]]
       /\ idb' = [idb EXCEPT !.conn =
            [q \in Procs |-> IF idb.conn[q] = "open" THEN "closed" ELSE idb.conn[q]]]
  /\ pc' = [pc EXCEPT ![p] = "done"]
  /\ ops' = ops + 1
  /\ UNCHANGED <<store, clock, genCount, txq>>

\* close lines 649-678: with a null handle it warns and resolves false;
\* otherwise db.close() and resolve(true). The promise is settled when
\* close returns
CloseCall(p, n) ==
  /\ Idle(p, n)
  /\ \E h \in CloseArgs(p) :
       /\ call' = [call EXCEPT ![p] =
            [NoCall EXCEPT !.op = "close", !.arg = Obj1("db", h),
                           !.ok = (h # NullHandle),
                           !.warns = IF h = NullHandle THEN 1 ELSE 0,
                           !.settles = 1]]
       /\ idb' = IF h = NullHandle THEN idb ELSE [idb EXCEPT !.conn[p] = "closed"]
  /\ pc' = [pc EXCEPT ![p] = "done"]
  /\ ops' = ops + 1
  /\ UNCHANGED <<store, clock, genCount, txq>>

\* a primitive called with a handle that is closed, or whose database has
\* no such store: db.transaction throws and the call rejects with the
\* exception (count, line 247)
UnusableCall(p, n) ==
  /\ Idle(p, n)
  /\ idb.conn[p] # "none"
  /\ ~Usable(p)
  /\ call' = [call EXCEPT ![p] =
       [NoCall EXCEPT !.op = "count", !.settles = 1,
                      !.err = IF idb.conn[p] = "closed" THEN ErrClosedHandle ELSE ErrNoStore]]
  /\ pc' = [pc EXCEPT ![p] = "failed"]
  /\ ops' = ops + 1
  /\ UNCHANGED <<store, clock, genCount, txq, idb>>

\* ---- calls in which the engine throws ----
\* the exception of an indexedDB.open or deleteDatabase that throws
ErrThrown == "thrown by the engine"

\* a connect that catches what indexedDB.open throws and rejects with its
\* own error
OpenThrows_caught(p, n) ==
  /\ Idle(p, n)
  /\ idb.conn[p] # "open"
  /\ \E a \in ConnectArgs :
       call' = [call EXCEPT ![p] =
                  [NoCall EXCEPT !.op = "connect", !.arg = a, !.thrown = ErrThrown,
                                 !.err = ErrConnect, !.settles = 1]]
  /\ pc' = [pc EXCEPT ![p] = "failed"]
  /\ ops' = ops + 1
  /\ UNCHANGED <<store, clock, genCount, txq, idb>>

\* connect when indexedDB.open throws (line 75, test 188-194): the call is
\* made in the executor of the promise, outside the try of lines 89-99, so
\* the promise rejects with the exception and no handler is set
OpenThrows(p, n) ==
  /\ Idle(p, n)
  /\ idb.conn[p] # "open"
  /\ \E a \in ConnectArgs :
       call' = [call EXCEPT ![p] =
                  [NoCall EXCEPT !.op = "connect", !.arg = a, !.thrown = ErrThrown,
                                 !.err = ErrThrown, !.settles = 1]]
  /\ pc' = [pc EXCEPT ![p] = "failed"]
  /\ ops' = ops + 1
  /\ UNCHANGED <<store, clock, genCount, txq, idb>>

\* drop when deleteDatabase throws (line 143, test 196-202): the promise
\* rejects with the exception
DeleteDatabaseThrows(p, n) ==
  /\ Idle(p, n)
  /\ call' = [call EXCEPT ![p] =
                [NoCall EXCEPT !.op = "drop", !.thrown = ErrThrown,
                               !.err = ErrThrown, !.settles = 1]]
  /\ pc' = [pc EXCEPT ![p] = "failed"]
  /\ ops' = ops + 1
  /\ UNCHANGED <<store, clock, genCount, txq, idb>>

\* the exception of db.transaction on p's handle
TransactionError(p) == IF idb.conn[p] = "closed" THEN ErrClosedHandle ELSE ErrNoStore

\* count, clear or delete called with a handle that is closed, or whose
\* database has no such store: db.transaction throws in the executor of
\* the promise (247, 589, 625) and the promise rejects with the exception.
\* A logical delete has called now() (577) and awaits upsert, whose get
\* (498, 184) or, without a key, whose own db.transaction (526) throws:
\* the rejection passes through the awaits unchanged
TransactionThrows(p, n) ==
  /\ Idle(p, n)
  /\ idb.conn[p] # "none"
  /\ ~Usable(p)
  /\ \/ /\ \E op \in {"count", "clear"} :
            call' = [call EXCEPT ![p] =
                       [NoCall EXCEPT !.op = op, !.thrown = TransactionError(p),
                                      !.err = TransactionError(p), !.settles = 1]]
        /\ UNCHANGED clock
     \/ /\ \E key \in DeleteKeys :
            call' = [call EXCEPT ![p] =
                       [NoCall EXCEPT !.op = "delete", !.key = key,
                                      !.thrown = TransactionError(p),
                                      !.err = TransactionError(p), !.settles = 1]]
        /\ UNCHANGED clock
     \/ \E key \in DeleteKeys : \E tDel \in Now(clock) :
          /\ call' = [call EXCEPT ![p] =
                        [NoCall EXCEPT !.op = "delete", !.logical = TRUE, !.key = key,
                                       !.nows = {tDel},
                                       !.thrown = TransactionError(p),
                                       !.err = TransactionError(p), !.settles = 1]]
          /\ clock' = tDel
  /\ pc' = [pc EXCEPT ![p] = "failed"]
  /\ ops' = ops + 1
  /\ UNCHANGED <<store, genCount, txq, idb>>

\* the records the callers of the connection behaviours upsert
ConnInputs == {EmptyObj}

\* the reads the callers of the connection behaviours make
ConnReadArgs == { a \in ReadArgs : a.op = "select" /\ a.where = "all" /\ ~a.includeDeleted }

\* one caller, each call awaited before the next is issued
Next ==
  \/ UpsertCall("p1", MaxOps, NoCall, UpsertInputs)
  \/ UpsertGot("p1")
  \/ UpsertPut("p1")
  \/ DeleteLogicalCall("p1", MaxOps, NoCall)
  \/ DeletePhysicalCall("p1", MaxOps, NoCall)
  \/ DeleteDone("p1")
  \/ ClearCall("p1", MaxOps, NoCall)
  \/ ClearDone("p1")

Spec == Init /\ [][Next]_vars

\* two callers whose calls are in flight together
NextConc ==
  \E p \in Procs :
    \/ UpsertCall(p, MaxConcOps, NoCall, UpsertInputs)
    \/ UpsertGot(p)
    \/ UpsertPut(p)
    \/ DeleteLogicalCall(p, MaxConcOps, NoCall)
    \/ DeletePhysicalCall(p, MaxConcOps, NoCall)
    \/ DeleteDone(p)
    \/ ClearCall(p, MaxConcOps, NoCall)
    \/ ClearDone(p)

SpecConc == Init /\ [][NextConc]_vars

\* one caller that calls the primitives, reads included, on an engine whose
\* requests can fail
NextApi ==
  \/ UpsertCall("p1", MaxApiOps, NoCall, PlainInputs)
  \/ DeleteLogicalCall("p1", MaxApiOps, NoCall)
  \/ DeletePhysicalCall("p1", MaxApiOps, NoCall)
  \/ ClearCall("p1", MaxApiOps, NoCall)
  \/ ReadCall("p1", MaxApiOps, NoCall, ReadArgs)
  \/ UpsertGot("p1")
  \/ UpsertPut("p1")
  \/ DeleteDone("p1")
  \/ ClearDone("p1")
  \/ ReadDone("p1")
  \/ SelectNext("p1")
  \/ SelectEnd("p1")
  \/ RequestFails("p1")

SpecApi == Init /\ [][NextApi]_vars

\* one caller that calls through stores made by defineStore and bindStore
NextStore ==
  \/ DefinedStoreCall("p1", MaxStoreOps)
  \/ BoundStoreCall("p1", MaxStoreOps)
  \/ UpsertGot("p1")
  \/ UpsertPut("p1")
  \/ DeleteDone("p1")
  \/ ClearDone("p1")
  \/ ReadDone("p1")
  \/ SelectNext("p1")
  \/ SelectEnd("p1")

SpecStore == Init /\ [][NextStore]_vars

\* before any connect: no database, no handle
InitConn ==
  /\ store = [k \in {} |-> EmptyObj]
  /\ clock = 1
  /\ genCount = 0
  /\ ops = 0
  /\ txq = <<>>
  /\ pc = [p \in Procs |-> "idle"]
  /\ call = [p \in Procs |-> NoCall]
  /\ idb = NoDb

\* two callers that connect, use, close and drop the database
NextConn ==
  \E p \in Procs :
    \/ ConnectCall(p, MaxConnOps)
    \/ OpenBlocked(p)
    \/ OpenSuccess(p)
    \/ OpenFails(p)
    \/ Upgrade(p)
    \/ UpgradeDone(p)
    \/ UpgradeAborted(p)
    \/ DropCall(p, MaxConnOps)
    \/ DropBlocked(p)
    \/ DropSuccess(p)
    \/ DropFails(p)
    \/ CloseCall(p, MaxConnOps)
    \/ UnusableCall(p, MaxConnOps)
    \/ UpsertCall(p, MaxConnOps, NoCall, ConnInputs)
    \/ UpsertPut(p)
    \/ ReadCall(p, MaxConnOps, NoCall, ConnReadArgs)
    \/ SelectNext(p)
    \/ SelectEnd(p)
    \/ RequestFails(p)

SpecConn == InitConn /\ [][NextConn]_vars

\* the engine fires the error event of an open request whose upgrade it
\* has aborted
SpecConnLive == SpecConn /\ \A p \in Procs : WF_vars(UpgradeAborted(p))

\* ---- one caller from connect to drop ----
\* one caller that connects, writes, closes, drops and connects again, on
\* an engine that can throw when a request is opened
NextLife ==
  \/ ConnectCall("p1", MaxLifeOps)
  \/ OpenThrows("p1", MaxLifeOps)
  \/ OpenSuccess("p1")
  \/ OpenFails("p1")
  \/ Upgrade("p1")
  \/ UpgradeDone("p1")
  \/ UpgradeAborted("p1")
  \/ DropCall("p1", MaxLifeOps)
  \/ DeleteDatabaseThrows("p1", MaxLifeOps)
  \/ DropBlocked("p1")
  \/ DropSuccess("p1")
  \/ DropFails("p1")
  \/ CloseCall("p1", MaxLifeOps)
  \/ TransactionThrows("p1", MaxLifeOps)
  \/ UpsertCall("p1", MaxLifeOps, NoCall, ConnInputs)
  \/ UpsertPut("p1")

SpecLife == InitConn /\ [][NextLife]_vars

\* ---- reads beside writes ----
\* the collection after one upsert of a new record has resolved
InitStored ==
  /\ \E rec \in FreshInputs :
       store = Put([k \in {} |-> EmptyObj], ApplyDefaults(rec, rec, GenId(0), 1, 1))
  /\ clock = 1
  /\ genCount = 1
  /\ ops = 0
  /\ txq = <<>>
  /\ pc = [p \in Procs |-> "idle"]
  /\ call = [p \in Procs |-> NoCall]
  /\ idb = OpenDb

\* two callers that call the reads and the writes without awaiting each other
NextRead ==
  \E p \in Procs :
    \/ UpsertCall(p, MaxReadOps, NoCall, PlainInputs)
    \/ UpsertGot(p)
    \/ UpsertPut(p)
    \/ DeleteLogicalCall(p, MaxReadOps, NoCall)
    \/ DeletePhysicalCall(p, MaxReadOps, NoCall)
    \/ DeleteDone(p)
    \/ ClearCall(p, MaxReadOps, NoCall)
    \/ ClearDone(p)
    \/ ReadCall(p, MaxReadOps, NoCall, ReadArgs)
    \/ ReadDone(p)
    \/ SelectNext(p)
    \/ SelectEnd(p)

SpecRead == InitStored /\ [][NextRead]_vars

\* ---- writes to distinct ids ----
\* the ids a caller names: p1 the id of the stored record, p2 the id it
\* has chosen itself
OwnKeys(p) == IF p = "p1" THEN {GenId(0)} ELSE CallerKeys

\* the records a caller passes to upsert: new ones without id, and partial
\* updates of a record with an id of its own
OwnInputs(p) ==
  { rec \in PlainInputs : "id" \in DOMAIN rec => rec["id"] \in OwnKeys(p) }

\* two callers that write without awaiting each other, each to its own ids
NextOwn ==
  \E p \in Procs :
    \/ UpsertCall(p, MaxOwnOps, NoCall, OwnInputs(p))
    \/ UpsertGot(p)
    \/ UpsertPut(p)
    \/ DeleteLogicalOf(p, MaxOwnOps, NoCall, OwnKeys(p))
    \/ DeletePhysicalOf(p, MaxOwnOps, NoCall, OwnKeys(p))
    \/ DeleteDone(p)

SpecOwn == InitStored /\ [][NextOwn]_vars

\* ---- an engine that answers every request ----
\* the engine fires the success or the error event of the request p waits for
EngineEvent(p) ==
  \/ RequestFails(p)
  \/ UpsertGot(p)
  \/ UpsertPut(p)
  \/ DeleteDone(p)
  \/ ClearDone(p)
  \/ ReadDone(p)
  \/ SelectNext(p)
  \/ SelectEnd(p)

\* the records passed to upsert: a new one, and { id, b: 1 }
LiveInputs == { rec \in PlainInputs : rec["b"] = 1 /\ "is_delete" \notin DOMAIN rec }

\* the reads called: one of each primitive
LiveReadArgs ==
  { arg \in ReadArgs :
      \/ arg.op = "get" /\ arg.key = 1 /\ arg.index = NoIndex
      \/ arg.op = "count"
      \/ arg.op = "list" /\ arg.index = NoIndex
      \/ arg.op = "select" /\ arg.where = "all" /\ ~arg.includeDeleted }

\* two callers that call every primitive without awaiting each other
NextLive ==
  \E p \in Procs :
    \/ UpsertCall(p, MaxLiveOps, NoCall, LiveInputs)
    \/ DeleteLogicalCall(p, MaxLiveOps, NoCall)
    \/ DeletePhysicalCall(p, MaxLiveOps, NoCall)
    \/ ClearCall(p, MaxLiveOps, NoCall)
    \/ ReadCall(p, MaxLiveOps, NoCall, LiveReadArgs)
    \/ EngineEvent(p)

\* the engine eventually fires success or error for each request
SpecLive ==
  InitStored /\ [][NextLive]_vars /\ \A p \in Procs : WF_vars(EngineEvent(p))

\* ---- two object stores ----
Colls == {StoreName, OtherName}

\* the slot of a primitive called with the object store c
InColl(c) == [NoCall EXCEPT !.coll = c]

\* a database with two object stores, each holding a record; the two
\* records have the same id
InitColl ==
  /\ \E rec \in FreshInputs :
       /\ store = Put([k \in {} |-> EmptyObj], ApplyDefaults(rec, rec, GenId(0), 1, 1))
       /\ idb = [OpenDb EXCEPT
                  !.stores = Colls,
                  !.other = Put([k \in {} |-> EmptyObj],
                                ApplyDefaults(SetField(rec, "id", GenId(0)),
                                              SetField(rec, "id", GenId(0)), GenId(0), 1, 1))]
  /\ clock = 1
  /\ genCount = 1
  /\ ops = 0
  /\ txq = <<>>
  /\ pc = [p \in Procs |-> "idle"]
  /\ call = [p \in Procs |-> NoCall]

\* one caller that calls the primitives with the second object store, and
\* the methods of stores defined and bound for the first one
NextColl ==
  \/ UpsertCall("p1", MaxCollOps, InColl(OtherName), PartialInputs)
  \/ DeleteLogicalCall("p1", MaxCollOps, InColl(OtherName))
  \/ DeletePhysicalCall("p1", MaxCollOps, InColl(OtherName))
  \/ ClearCall("p1", MaxCollOps, InColl(OtherName))
  \/ ReadCall("p1", MaxCollOps, InColl(OtherName), LiveReadArgs)
  \/ DefinedStoreCall("p1", MaxCollOps)
  \/ BoundStoreCall("p1", MaxCollOps)
  \/ UpsertGot("p1")
  \/ UpsertPut("p1")
  \/ DeleteDone("p1")
  \/ ClearDone("p1")
  \/ ReadDone("p1")
  \/ SelectNext("p1")
  \/ SelectEnd("p1")

SpecColl == InitColl /\ [][NextColl]_vars

TypeOK ==
  /\ clock \in Times
  /\ \A k \in DOMAIN store : DOMAIN store[k] \subseteq Fields /\ store[k]["id"] = k

(***************************************************************************)
(* Properties                                                              *)
(***************************************************************************)
\* the step in which p's put succeeds and its upsert (or logical delete) resolves
PutLands(p) == pc[p] = "put" /\ pc'[p] = "done"

\* the step in which p's physical delete succeeds and resolves
DeleteLands(p) == pc[p] = "del" /\ pc'[p] = "done"

\* the step in which p's clear succeeds and resolves
ClearLands(p) == pc[p] = "clr" /\ pc'[p] = "done"

\* no write to the id has landed since the call's internal get read it
Unraced(p) == Get(store, call[p].merge["id"]) = call[p].exist

InSeq(x, s) == \E i \in 1..Len(s) : s[i] = x

\* r and g carry the same domain fields with the same values
SameDomainFields(r, g) ==
  \A f \in DomainFields :
    IF f \in DOMAIN r THEN f \in DOMAIN g /\ g[f] = r[f] ELSE f \notin DOMAIN g

\* ---- C1 ----
\* C1 as stated: for any record r without id, when upsert(r) resolves, get
\* of the returned id yields r's domain fields, a non-empty id no record was
\* stored under, inserted = updated, is_delete = false and deleted = "".
C1_RoundTripAsStated ==
  [][\A p \in Procs :
       (PutLands(p) /\ call[p].op = "upsert" /\ ~Truthy(call[p].rec, "id")) =>
         LET g == Get(store', call'[p].res)
         IN /\ SameDomainFields(call[p].rec, g)
            /\ Truthy(g, "id") /\ g["id"] \notin DOMAIN store
            /\ g["inserted"] = g["updated"]
            /\ g["is_delete"] = FALSE
            /\ g["deleted"] = EmptyStr]_vars

\* C1 amended: for any record r that carries domain fields only, when
\* upsert(r) resolves, get of the returned id yields r's domain fields, a
\* non-empty id no record was stored under, is_delete = false, deleted = "",
\* inserted and updated both returned by the timestamp source during the
\* call with inserted <= updated, and inserted = updated when the source
\* returned one value throughout the call.
C1_RoundTrip ==
  [][\A p \in Procs :
       (PutLands(p) /\ call[p].op = "upsert" /\ DOMAIN call[p].rec \subseteq DomainFields) =>
         LET g == Get(store', call'[p].res)
         IN /\ SameDomainFields(call[p].rec, g)
            /\ Truthy(g, "id") /\ g["id"] \notin DOMAIN store
            /\ g["inserted"] \in call[p].nows /\ g["updated"] \in call[p].nows
            /\ g["inserted"] <= g["updated"]
            /\ (Cardinality(call[p].nows) = 1 => g["inserted"] = g["updated"])
            /\ g["is_delete"] = FALSE
            /\ g["deleted"] = EmptyStr]_vars

\* a domain-only record has been upserted into a non-empty store and reads
\* back with inserted = updated
C1_Witness ==
  /\ pc["p1"] = "done" /\ call["p1"].op = "upsert"
  /\ DOMAIN call["p1"].rec = DomainFields
  /\ Count(store) >= 2
  /\ LET g == Get(store, call["p1"].res)
     IN Truthy(g, "id") /\ g["inserted"] = g["updated"] /\ g["a"] = 1 /\ g["b"] = 1

\* ---- C2 ----
\* C2: when upsert({id, b: b2}) resolves for an id whose stored record has
\* fields a and b (the record its internal get read), the stored record has
\* a unchanged, b = b2, inserted unchanged, and updated equal to the one
\* value the timestamp source returned during this call.
C2_MergePreservesUntouched ==
  [][\A p \in Procs :
       (/\ PutLands(p) /\ call[p].op = "upsert"
        /\ DOMAIN call[p].rec = {"id", "b"}
        /\ Truthy(call[p].exist, "id") /\ Unraced(p)
        /\ DomainFields \subseteq DOMAIN call[p].exist) =>
         LET id == call[p].rec["id"]
             old == store[id]
             new == store'[id]
         IN /\ "a" \in DOMAIN new /\ new["a"] = old["a"]
            /\ new["b"] = call[p].rec["b"]
            /\ new["inserted"] = old["inserted"]
            /\ call[p].nows = {new["updated"]}]_vars

\* a partial update {id, b: b2} has landed on a stored record {a, b}: b is
\* b2, a and inserted are as read, updated has moved on
C2_Witness ==
  /\ pc["p1"] = "done" /\ call["p1"].op = "upsert"
  /\ DOMAIN call["p1"].rec = {"id", "b"}
  /\ "a" \in DOMAIN call["p1"].exist /\ "b" \in DOMAIN call["p1"].exist
  /\ call["p1"].exist["b"] # call["p1"].rec["b"]
  /\ LET new == Get(store, call["p1"].res)
     IN /\ Truthy(new, "id")
        /\ new["b"] = call["p1"].rec["b"] /\ new["a"] = call["p1"].exist["a"]
        /\ new["inserted"] = call["p1"].exist["inserted"]
        /\ new["updated"] > call["p1"].exist["updated"]

\* ---- C3 ----
\* C3: upsert's put stores the merge of its input with the snapshot its
\* internal get read, whatever was written to the id since that get: each
\* domain field has the input's value, else the snapshot's, else is absent;
\* and the call resolves with the id. C3_LostUpdate is the interleaving in
\* which this silently undoes another call's write.
C3_PutWritesSnapshot ==
  [][\A p \in Procs :
       PutLands(p) =>
         /\ call'[p].res = call[p].merge["id"]
         /\ \A f \in DomainFields :
              LET new == store'[call[p].merge["id"]]
              IN IF f \in DOMAIN call[p].rec
                 THEN new[f] = call[p].rec[f]
                 ELSE IF Truthy(call[p].exist, "id") /\ f \in DOMAIN call[p].exist
                 THEN new[f] = call[p].exist[f]
                 ELSE f \notin DOMAIN new]_vars

\* both calls have resolved; p wrote {id, b: v}, q wrote to the same id
\* without naming b, and the stored record does not have b = v
C3_LostUpdate ==
  \E p \in Procs : \E q \in Procs \ {p} :
    /\ pc[p] = "done" /\ pc[q] = "done"
    /\ call[p].op = "upsert" /\ DOMAIN call[p].rec = {"id", "b"}
    /\ call[q].op \in {"upsert", "delete"} /\ "id" \in DOMAIN call[q].rec
    /\ call[q].rec["id"] = call[p].rec["id"] /\ "b" \notin DOMAIN call[q].rec
    /\ call[p].res = call[p].rec["id"] /\ call[q].res = call[p].rec["id"]
    /\ call[p].res \in DOMAIN store
    /\ ("b" \notin DOMAIN store[call[p].res] \/ store[call[p].res]["b"] # call[p].rec["b"])

\* ---- C4 ----
\* C4: when an upsert or a logical delete resolves, the stored record's
\* updated is a value the timestamp source returned during that call.
C4_UpdatedRefreshed ==
  [][\A p \in Procs :
       PutLands(p) => store'[call'[p].res]["updated"] \in call[p].nows]_vars

\* ---- C5 ----
\* is_delete is true exactly when deleted is non-empty
SoftConsistent(r) == Truthy(r, "is_delete") = Truthy(r, "deleted")

\* the input names neither is_delete nor deleted, or names both in agreement
SoftInput(r) ==
  \/ "is_delete" \notin DOMAIN r /\ "deleted" \notin DOMAIN r
  \/ "is_delete" \in DOMAIN r /\ "deleted" \in DOMAIN r /\ SoftConsistent(r)

\* C5 as stated: in every reachable state every stored record has is_delete
\* true exactly when its deleted is non-empty.
C5_SoftDeleteConsistent ==
  \A k \in DOMAIN store : SoftConsistent(store[k])

\* C5 amended: a logical delete, and an upsert whose input names neither
\* is_delete nor deleted or names both in agreement, keeps every stored
\* record consistent (is_delete true exactly when deleted is non-empty) when
\* the stored records and the record its internal get read were consistent.
C5_SoftDeletePreserved ==
  [][\A p \in Procs :
       (/\ PutLands(p) /\ SoftInput(call[p].rec)
        /\ SoftConsistent(call[p].exist)
        /\ \A k \in DOMAIN store : SoftConsistent(store[k])) =>
         \A k \in DOMAIN store' : SoftConsistent(store'[k])]_vars

\* a soft-deleted record has been updated by {id, b: v}: it is still
\* flagged and still carries its deletion time
C5_Witness ==
  /\ pc["p1"] = "done" /\ call["p1"].op = "upsert"
  /\ DOMAIN call["p1"].rec = {"id", "b"}
  /\ Truthy(call["p1"].exist, "is_delete") /\ Truthy(call["p1"].exist, "deleted")
  /\ \A k \in DOMAIN store : SoftConsistent(store[k])
  /\ Truthy(Get(store, call["p1"].res), "is_delete")

C7_PhysicalDelete ==
  [][\A p \in Procs :
       (DeleteLands(p) /\ call[p].key \in DOMAIN store) =>
         /\ call'[p].ok
         /\ Get(store', call[p].key) = EmptyObj
         /\ Count(store') = Count(store) - 1]_vars

\* a physical delete has resolved and took one of two stored records
C7_Witness ==
  /\ pc["p1"] = "done" /\ call["p1"].op = "delete" /\ ~call["p1"].logical
  /\ call["p1"].ok
  /\ call["p1"].key \in 1..genCount
  /\ Get(store, call["p1"].key) = EmptyObj
  /\ genCount = 2 /\ Count(store) = 1

\* ---- C8 ----
\* C8 as stated: no step changes the inserted of a record that stays stored.
C8_InsertedWriteOnce ==
  [][\A k \in (DOMAIN store) \cap (DOMAIN store') :
       store'[k]["inserted"] = store[k]["inserted"]]_vars

\* C8 amended: an upsert whose input does not carry inserted (or carries
\* the stored value), and a logical delete, leave the stored inserted of a
\* stored record as it was, when no other write to the id landed between
\* the call's internal get and its put.
C8_InsertedKept ==
  [][\A p \in Procs :
       (/\ PutLands(p) /\ Truthy(call[p].exist, "id") /\ Unraced(p)
        /\ ("inserted" \in DOMAIN call[p].rec =>
              call[p].rec["inserted"] = call[p].exist["inserted"])) =>
         store'[call'[p].res]["inserted"] = store[call'[p].res]["inserted"]]_vars

\* a logical delete has landed on a stored record at a later time than its
\* insertion: updated has moved on, inserted has not
C8_Witness ==
  /\ pc["p1"] = "done" /\ call["p1"].op = "delete" /\ call["p1"].logical
  /\ Truthy(call["p1"].exist, "id")
  /\ LET new == Get(store, call["p1"].res)
     IN /\ Truthy(new, "id")
        /\ new["inserted"] = call["p1"].exist["inserted"]
        /\ new["updated"] > new["inserted"]

\* ---- C9 ----
\* C9 as stated: no step changes or clears a non-empty deleted of a record
\* that stays stored.
C9_DeletedImmutable ==
  [][\A k \in (DOMAIN store) \cap (DOMAIN store') :
       Truthy(store[k], "deleted") => store'[k]["deleted"] = store[k]["deleted"]]_vars

\* C9 amended: an upsert whose input does not carry deleted (or carries the
\* stored value) neither changes nor clears a non-empty stored deleted, when
\* no other write to the id landed between its internal get and its put; a
\* logical delete stores the deleted of its own call.
C9_DeletedKept ==
  [][\A p \in Procs :
       (PutLands(p) /\ Truthy(call[p].exist, "deleted") /\ Unraced(p)) =>
         store'[call'[p].res]["deleted"] =
           IF "deleted" \in DOMAIN call[p].rec
           THEN call[p].rec["deleted"]
           ELSE store[call'[p].res]["deleted"]]_vars

\* an upsert whose input does not carry deleted has landed on a soft-deleted
\* record at a later time: the stored deleted is the one it had
C9_Witness ==
  /\ pc["p1"] = "done" /\ call["p1"].op = "upsert"
  /\ Truthy(call["p1"].exist, "deleted")
  /\ "deleted" \notin DOMAIN call["p1"].rec
  /\ LET new == Get(store, call["p1"].res)
     IN /\ Truthy(new, "id")
        /\ new["deleted"] = call["p1"].exist["deleted"]
        /\ new["updated"] > new["deleted"]

\* ---- C10 ----
\* C10: in every reachable state every stored record has inserted <= updated
\* (the timestamp source of the model never goes backwards).
C10_InsertedBeforeUpdated ==
  \A k \in DOMAIN store : store[k]["inserted"] <= store[k]["updated"]

\* ---- C11 ----
\* C11: when an upsert or a logical delete resolves, the id it resolves with
\* is non-empty and a record is stored under it, and every stored record has
\* a non-empty id equal to the key it is stored under.
C11_IdNonEmpty ==
  [][\A p \in Procs :
       PutLands(p) =>
         /\ call'[p].res # EmptyStr
         /\ call'[p].res \in DOMAIN store'
         /\ \A k \in DOMAIN store' : k # EmptyStr /\ store'[k]["id"] = k]_vars

\* a logical delete was called with the empty string as key: its upsert
\* resolved with a generated id and the record is stored under that id
C11_Witness ==
  /\ pc["p1"] = "done" /\ call["p1"].op = "delete" /\ call["p1"].logical
  /\ call["p1"].key = EmptyStr
  /\ call["p1"].res # EmptyStr
  /\ Get(store, call["p1"].res) # EmptyObj
  /\ Get(store, call["p1"].res)["id"] = call["p1"].res

\* ---- C12 ----
\* values looked up through the index
IndexProbes == DomainVals \cup {EmptyStr}

\* C12: in every reachable state, get of a key (or of an index key) that
\* matches no record yields the empty object, which has no id and is not
\* the engine's undefined; get of a stored key yields the stored record, and
\* get of an index key that matches yields a stored record with that value.
C12_GetMissing ==
  /\ \A key \in DeleteKeys :
       IF key \in DOMAIN store
       THEN Get(store, key) = store[key]
       ELSE /\ Get(store, key) = EmptyObj
            /\ "id" \notin DOMAIN Get(store, key)
            /\ Get(store, key) # Undefined
  /\ \A index \in IndexNames : \A v \in IndexProbes :
       LET g == GetBy(store, v, index)
       IN IF \E k \in DOMAIN store : index \in DOMAIN store[k] /\ store[k][index] = v
          THEN /\ Truthy(g, "id") /\ g = store[g["id"]]
               /\ g[index] = v
          ELSE g = EmptyObj /\ "id" \notin DOMAIN g /\ g # Undefined

\* a store in which a known id has no record and the index has entries for
\* one value and none for another: the two misses yield the empty object
C12_Witness ==
  /\ Count(store) >= 1
  /\ \E key \in KnownKeys : key \notin DOMAIN store /\ Get(store, key) = EmptyObj
  /\ GetBy(store, 2, "b") = EmptyObj
  /\ Truthy(GetBy(store, 1, "b"), "id")

\* ---- C13 ----
\* the keys of the records select is to return
Matches(st, w, includeDeleted) ==
  {k \in DOMAIN st : /\ includeDeleted \/ ~Truthy(st[k], "is_delete")
                     /\ ~Throws(w, st[k]) /\ Where(w, st[k])}

C14_ThrowIsFalse ==
  \A includeDeleted \in BOOLEAN :
    LET s == Select(store, "b2strict", includeDeleted)
    IN /\ s = Select(store, "b2", includeDeleted)
       /\ \A i \in 1..Len(s) : ~Throws("b2strict", s[i])
       /\ \A k \in DOMAIN store :
            (/\ includeDeleted \/ ~Truthy(store[k], "is_delete")
             /\ ~Throws("b2strict", store[k]) /\ Where("b2strict", store[k]))
              => InSeq(store[k], s)

\* the predicate throws on a record and a record with a higher key
\* satisfies it: select returns the later record
C14_Witness ==
  \E k \in DOMAIN store : \E j \in DOMAIN store :
    /\ k < j
    /\ Throws("b2strict", store[k])
    /\ Where("b2strict", store[j]) /\ ~Throws("b2strict", store[j])
    /\ Select(store, "b2strict", TRUE) = <<store[j]>>

\* ---- C15 ----
\* the value of the indexed field lies within the given bounds
WithinBounds(v, hasFrom, from, hasTo, to) ==
  (hasFrom => from <= v) /\ (hasTo => v <= to)

\* C15: in every reachable state whose stored keys are k1 < k2 < k3, list
\* from k1 to k1 returns the k1 record, from k1 to k3 all three in key
\* order, from k2 alone k2 and k3, to k2 alone k1 and k2, no bound all
\* three; and in every reachable state list with an index returns exactly
\* the records whose indexed value lies within the bounds, both included.
C15_ListRanges ==
  /\ Count(store) = 3 =>
       LET ks == SortedKeys(DOMAIN store)
           r1 == store[ks[1]]
           r2 == store[ks[2]]
           r3 == store[ks[3]]
       IN /\ ks[1] < ks[2] /\ ks[2] < ks[3]
          /\ List(store, TRUE, ks[1], TRUE, ks[1]) = <<r1>>
          /\ List(store, TRUE, ks[1], TRUE, ks[3]) = <<r1, r2, r3>>
          /\ List(store, TRUE, ks[2], FALSE, EmptyStr) = <<r2, r3>>
          /\ List(store, FALSE, EmptyStr, TRUE, ks[2]) = <<r1, r2>>
          /\ List(store, FALSE, EmptyStr, FALSE, EmptyStr) = <<r1, r2, r3>>
  /\ \A index \in IndexNames : \A hasFrom \in BOOLEAN : \A hasTo \in BOOLEAN :
       \A from \in DomainVals : \A to \in DomainVals :
         (hasFrom /\ hasTo => from <= to) =>
           LET s == ListBy(store, index, hasFrom, from, hasTo, to)
               hits == {k \in DOMAIN store :
                          /\ index \in DOMAIN store[k]
                          /\ WithinBounds(store[k][index], hasFrom, from, hasTo, to)}
           IN /\ Len(s) = Cardinality(hits)
              /\ \A k \in hits : InSeq(store[k], s)

\* three records are stored: list from the middle key returns two of them,
\* and list over the index from 1 to 1 returns the three, from 2 none
C15_Witness ==
  /\ Count(store) = 3
  /\ Len(List(store, TRUE, SortedKeys(DOMAIN store)[2], FALSE, EmptyStr)) = 2
  /\ Len(ListBy(store, "b", TRUE, 1, TRUE, 1)) = 3
  /\ Len(ListBy(store, "b", TRUE, 2, FALSE, EmptyStr)) = 0

\* ---- C16 ----
\* C16: when delete(key, {logical: true}) resolves for a key whose record
\* its internal get read (and no other write to the key landed since), it
\* resolves true and the stored record has the same fields as before, each
\* with its value, except is_delete = true, deleted = the value now()
\* returned for it, and updated = a value now() returned during the call.
C16_LogicalDeleteKeeps ==
  [][\A p \in Procs :
       (/\ PutLands(p) /\ call[p].op = "delete"
        /\ Truthy(call[p].exist, "id") /\ Unraced(p)) =>
         LET old == store[call[p].key]
             new == Get(store', call[p].key)
         IN /\ call'[p].ok
            /\ DOMAIN new = DOMAIN old
            /\ \A f \in (DOMAIN old) \ {"is_delete", "deleted", "updated"} :
                 f \in DOMAIN new /\ new[f] = old[f]
            /\ Truthy(new, "is_delete")
            /\ Truthy(new, "deleted") /\ new["deleted"] = call[p].rec["deleted"]
            /\ new["deleted"] \in call[p].nows
            /\ Truthy(new, "updated") /\ new["updated"] \in call[p].nows]_vars

\* a logical delete has resolved true on a live record {a, b} at a later
\* time than its last write: a, b and inserted are as they were, the record
\* is flagged, deleted and updated are later than inserted
C16_Witness ==
  /\ pc["p1"] = "done" /\ call["p1"].op = "delete" /\ call["p1"].logical
  /\ call["p1"].ok
  /\ DomainFields \subseteq DOMAIN call["p1"].exist
  /\ ~Truthy(call["p1"].exist, "is_delete")
  /\ LET new == Get(store, call["p1"].key)
         old == call["p1"].exist
     IN /\ Truthy(new, "id") /\ Truthy(new, "is_delete")
        /\ new["a"] = old["a"] /\ new["b"] = old["b"]
        /\ new["inserted"] = old["inserted"]
        /\ new["deleted"] > old["updated"] /\ new["updated"] > old["updated"]

\* ---- C17 ----
\* C17 as stated: when delete(key, {logical: true}) resolves for any key
\* with no stored record, it resolves true, count is one more than before
\* and get(key) shows is_delete true.
C17_LogicalDeleteCreates ==
  [][\A p \in Procs :
       (PutLands(p) /\ call[p].op = "delete" /\ call[p].key \notin DOMAIN store) =>
         /\ call'[p].ok
         /\ Count(store') = Count(store) + 1
         /\ Truthy(Get(store', call[p].key), "is_delete")]_vars

\* C17 amended: when delete(key, {logical: true}) resolves for a key with
\* no stored record, it resolves true and count is one more than before;
\* for a non-empty key get(key) shows a record with that id, is_delete true
\* and a non-empty deleted; for the empty key get(key) yields the empty
\* object and the new soft-deleted record is stored under a generated id.
C17_LogicalDeleteCreatesKeyed ==
  [][\A p \in Procs :
       (PutLands(p) /\ call[p].op = "delete" /\ call[p].key \notin DOMAIN store) =>
         /\ call'[p].ok
         /\ Count(store') = Count(store) + 1
         /\ LET new == Get(store', call'[p].res)
            IN /\ Truthy(new, "is_delete") /\ Truthy(new, "deleted")
               /\ new["id"] = call'[p].res
         /\ IF call[p].key # EmptyStr
            THEN call'[p].res = call[p].key
            ELSE /\ Get(store', call[p].key) = EmptyObj
                 /\ call'[p].res # EmptyStr
                 /\ call'[p].res \notin DOMAIN store]_vars

\* a logical delete has resolved true for a caller-chosen key that had no
\* record: a soft-deleted record without domain fields is stored under it
\* beside the record that was there
C17_Witness ==
  /\ pc["p1"] = "done" /\ call["p1"].op = "delete" /\ call["p1"].logical
  /\ call["p1"].ok
  /\ call["p1"].key \in CallerKeys
  /\ call["p1"].exist = EmptyObj
  /\ Count(store) = 2
  /\ LET new == Get(store, call["p1"].key)
     IN /\ Truthy(new, "is_delete") /\ Truthy(new, "deleted")
        /\ (DOMAIN new) \cap DomainFields = {}

\* ---- C18 ----
\* C18: when a physical delete resolves for a key under which no record is
\* stored, it resolves true and the stored records, and so count, are as
\* they were.
C18_PhysicalDeleteIdempotent ==
  [][\A p \in Procs :
       (DeleteLands(p) /\ call[p].key \notin DOMAIN store) =>
         /\ call'[p].ok
         /\ store' = store
         /\ Count(store') = Count(store)]_vars

\* a physical delete of the empty key, under which nothing is ever stored,
\* has resolved true and two records are stored
C18_Witness ==
  /\ pc["p1"] = "done" /\ call["p1"].op = "delete" /\ ~call["p1"].logical
  /\ call["p1"].ok
  /\ call["p1"].key = EmptyStr
  /\ Count(store) = 2

\* ---- C19 ----
\* C19: when clear resolves, it resolves true and count is 0, whatever was
\* stored before: live records, soft-deleted records, or nothing at all (as
\* when the call before it was a clear).
C19_ClearAll ==
  [][\A p \in Procs :
       ClearLands(p) =>
         /\ call'[p].ok
         /\ Count(store') = 0
         /\ \A key \in DeleteKeys : Get(store', key) = EmptyObj]_vars

\* a clear has resolved true as the third call after two calls that each
\* stored a record under a generated id: nothing is stored
C19_Witness ==
  /\ pc["p1"] = "done" /\ call["p1"].op = "clear"
  /\ call["p1"].ok
  /\ ops = 3 /\ genCount = 2
  /\ Count(store) = 0

\* ---- C20 ----
\* C20: in every reachable state count is the number of stored records,
\* the soft-deleted ones and the others together; list without index and
\* bounds returns each stored record once; so its length equals count.
C20_CountListAll ==
  LET s == List(store, FALSE, EmptyStr, FALSE, EmptyStr)
  IN /\ Count(store) = Cardinality({k \in DOMAIN store : Truthy(store[k], "is_delete")})
                         + Cardinality({k \in DOMAIN store : ~Truthy(store[k], "is_delete")})
     /\ Len(s) = Count(store)
     /\ \A k \in DOMAIN store : InSeq(store[k], s)
     /\ \A i \in 1..Len(s) : s[i] = Get(store, s[i]["id"])

\* two soft-deleted records and a live one are stored: count is 3 and list
\* returns the three
C20_Witness ==
  /\ Cardinality({k \in DOMAIN store : Truthy(store[k], "is_delete")}) = 2
  /\ Cardinality({k \in DOMAIN store : ~Truthy(store[k], "is_delete")}) = 1
  /\ Count(store) = 3
  /\ Len(List(store, FALSE, EmptyStr, FALSE, EmptyStr)) = 3

\* ---- C21 ----
\* the step in which p issues a call
CallIssued(p) == pc[p] \in {"idle", "done", "failed"} /\ pc'[p] \notin {"idle", "done", "failed"}

\* the mode a store with these defaults is to delete in: logical unless
\* logicalDelete is given as false
DefinedLogical(defaults) ==
  "logicalDelete" \notin DOMAIN defaults \/ defaults["logicalDelete"] = TRUE

\* C21: a delete called through a defined or bound store runs in the mode
\* of the store's defaults (logical when logicalDelete is not given),
\* whatever further argument the caller adds; when it resolves in logical
\* mode the record stored under the id it resolved with is flagged, and
\* when it resolves in physical mode get(key) yields the empty object.
C21_StoreDeleteMode ==
  [][\A p \in Procs :
       /\ (CallIssued(p) /\ call'[p].via = "store" /\ call'[p].op = "delete") =>
            call'[p].logical = DefinedLogical(call'[p].defaults)
       /\ (PutLands(p) /\ call[p].via = "store" /\ call[p].op = "delete") =>
            /\ DefinedLogical(call[p].defaults)
            /\ call'[p].ok
            /\ Truthy(Get(store', call'[p].res), "is_delete")
       /\ (DeleteLands(p) /\ call[p].via = "store") =>
            /\ ~DefinedLogical(call[p].defaults)
            /\ call'[p].ok
            /\ Get(store', call[p].key) = EmptyObj]_vars

\* a delete through a store defined with logicalDelete false has resolved
\* true for the id of the one stored record: nothing is stored
C21_Witness ==
  /\ pc["p1"] = "done" /\ call["p1"].op = "delete" /\ call["p1"].via = "store"
  /\ call["p1"].defaults = Obj1("logicalDelete", FALSE)
  /\ call["p1"].ok /\ ~call["p1"].logical
  /\ genCount = 1 /\ call["p1"].key = 1
  /\ Get(store, call["p1"].key) = EmptyObj /\ Count(store) = 0

\* ---- C22 ----
\* C22: a select called through a defined or bound store has includeDeleted
\* true exactly when the store deletes physically; when it resolves for a
\* store that deletes logically it returns no record with is_delete true,
\* and otherwise it returns every stored record its predicate accepts, the
\* soft-deleted ones too; and after a logical delete through the store
\* resolves, no select of that store returns the record.
C22_StoreSelectMode ==
  [][\A p \in Procs :
       /\ (CallIssued(p) /\ call'[p].via = "store" /\ call'[p].op = "select") =>
            call'[p].arg.includeDeleted = ~DefinedLogical(call'[p].defaults)
       /\ (pc[p] = "scan" /\ pc'[p] = "done" /\ call[p].via = "store") =>
            IF DefinedLogical(call[p].defaults)
            THEN \A i \in 1..Len(call'[p].out) : ~Truthy(call'[p].out[i], "is_delete")
            ELSE \A k \in DOMAIN store :
                   (~Throws(call[p].arg.where, store[k]) /\ Where(call[p].arg.where, store[k]))
                     => InSeq(store[k], call'[p].out)
       /\ (PutLands(p) /\ call[p].via = "store" /\ call[p].op = "delete") =>
            \A a \in StoreReadArgs(call[p].defaults) :
              a.op = "select" =>
                ~InSeq(Get(store', call'[p].res),
                       Select(store', a.where, a.includeDeleted))]_vars

\* a select without predicate through a store with no defaults has
\* resolved with no record while one record, soft-deleted, is stored
C22_Witness ==
  /\ pc["p1"] = "done" /\ call["p1"].op = "select" /\ call["p1"].via = "store"
  /\ call["p1"].defaults = EmptyObj
  /\ call["p1"].arg.where = "all"
  /\ call["p1"].out = <<>>
  /\ Count(store) = 1
  /\ \A k \in DOMAIN store : Truthy(store[k], "is_delete")

Settles(p) == pc[p] \notin {"idle", "done", "failed"} /\ pc'[p] \in {"done", "failed"}

\* the transactions of p that are open
OpenTxs(p) == {i \in 1..Len(txq) : txq[i] = p}

\* C24 as stated: every primitive call has opened exactly one transaction
\* when it settles, and no transaction of a caller stays open once its call
\* has settled.
C24_OneTransactionPerCall ==
  [][\A p \in Procs :
       /\ Settles(p) => call'[p].txs = 1
       /\ pc'[p] \in {"idle", "done", "failed"} => OpenTxs(p)' = {}]_vars

\* C24 amended: get, count, list, select, clear and a physical delete have
\* opened exactly one transaction when they settle; an upsert, and the
\* upsert a logical delete consists of, has opened one for its put when its
\* input has an empty id, and otherwise one for its get and, unless the get
\* failed, a second one for its put, opened when the first was finished; a
\* call has at most one transaction open at a time and none once settled.
C24_TransactionsPerCall ==
  [][\A p \in Procs :
       /\ Settles(p) =>
            call'[p].txs =
              IF call[p].op \in {"get", "count", "list", "select", "clear"} THEN 1
              ELSE IF call[p].op = "delete" /\ ~call[p].logical THEN 1
              ELSE IF ~Truthy(call[p].rec, "id") THEN 1
              ELSE IF pc[p] = "get" THEN 1
              ELSE 2
       /\ Cardinality(OpenTxs(p)') <= 1
       /\ pc'[p] \in {"idle", "done", "failed"} => OpenTxs(p)' = {}]_vars

\* an upsert whose input names a stored id has resolved after opening two
\* transactions, none of which is open
C24_Witness ==
  /\ pc["p1"] = "done" /\ call["p1"].op = "upsert"
  /\ Truthy(call["p1"].exist, "id")
  /\ call["p1"].txs = 2
  /\ OpenTxs("p1") = {}

\* ---- C25 ----
\* C25: in every reachable state the promise of each caller's call has been
\* settled at most once: not at all while the call is pending, whatever
\* blocked and cursor events it has had, once without an error when it has
\* resolved and once with an error when it has rejected.
C25_SettledOnce ==
  \A p \in Procs :
    /\ call[p].settles <= 1
    /\ pc[p] = "done" => call[p].settles = 1 /\ call[p].err = ""
    /\ pc[p] = "failed" => call[p].settles = 1 /\ call[p].err # ""
    /\ pc[p] \notin {"done", "failed"} => call[p].settles = 0 /\ call[p].err = ""

\* a select has resolved once after a cursor event with a record and the
\* one that ends the scan, while the other caller's connect has had its
\* blocked event and is pending
C25_Witness ==
  /\ pc["p1"] = "done" /\ call["p1"].op = "select"
  /\ call["p1"].pos = 1 /\ Len(call["p1"].out) = 1
  /\ call["p1"].settles = 1
  /\ pc["p2"] = "open" /\ call["p2"].op = "connect"
  /\ call["p2"].warns = 1 /\ call["p2"].settles = 0

\* ---- C26 ----
\* the operation class of a primitive and of an error message
ClassOfOp(op) ==
  IF op \in {"get", "count", "list", "select"} THEN "read"
  ELSE IF op = "upsert" THEN "write"
  ELSE op

ClassOfError(msg) ==
  IF msg \in {ErrGet, ErrCount, ErrList, ErrSelect} THEN "read"
  ELSE IF msg = ErrUpsert THEN "write"
  ELSE IF msg = ErrDelete THEN "delete"
  ELSE IF msg = ErrClear THEN "clear"
  ELSE "none"

\* C26: in every reachable state a call that has failed has rejected with
\* the error of its own operation class (read for get, count, list and
\* select, write for upsert, delete for delete, clear for clear), and a call
\* that has resolved carries no error.
C26_ErrorOfOwnClass ==
  \A p \in Procs :
    /\ pc[p] = "failed" => ClassOfError(call[p].err) = ClassOfOp(call[p].op)
    /\ pc[p] = "done" => call[p].err = ""

\* ---- C27 ----
\* the step in which p's connect resolves
ConnectResolves(p) == pc[p] \in {"open", "upgraded"} /\ pc'[p] = "done"

\* C27: the creation callback of a connect runs only in a step in which
\* the requested version is higher than the database's, for the first time
\* in that call and while its promise is unsettled; when a connect resolves
\* the callback has run once if there was an upgrade and a callback was
\* given, and otherwise not at all; and a connect that resolves for the
\* version the database has leaves version, object stores and records as
\* they were.
C27_CallbackOnlyOnUpgrade ==
  [][\A p \in Procs :
       /\ (pc[p] \in {"open", "upgraded", "aborted"}
             /\ call'[p].cbs # call[p].cbs) =>
            /\ DbVersion(call[p].arg.version) > idb.version
            /\ call[p].arg.createFunc # "none"
            /\ call[p].cbs = 0 /\ call'[p].cbs = 1
            /\ call[p].settles = 0 /\ call'[p].settles = 0
       /\ ConnectResolves(p) =>
            /\ idb'.conn[p] = "open"
            /\ idb'.version = DbVersion(call[p].arg.version)
            /\ IF pc[p] = "upgraded"
               THEN call'[p].cbs = IF call[p].arg.createFunc = "none" THEN 0 ELSE 1
               ELSE /\ call'[p].cbs = 0
                    /\ idb'.version = idb.version
                    /\ idb'.stores = idb.stores
                    /\ store' = store]_vars

\* a second connect with the version the database has and with a creation
\* callback has resolved without running it; the store and its record are
\* there
C27_Witness ==
  /\ pc["p2"] = "done" /\ call["p2"].op = "connect"
  /\ call["p2"].arg.createFunc = "create"
  /\ call["p2"].cbs = 0
  /\ idb.conn["p1"] = "open" /\ idb.conn["p2"] = "open"
  /\ idb.version = 1 /\ StoreName \in idb.stores
  /\ Count(store) = 1

\* ---- C28 ----
\* the creation callback of p's connect has thrown: it has run and the
\* upgrade has not completed
CallbackThrew(p) ==
  /\ call[p].op = "connect" /\ call[p].cbs = 1
  /\ pc[p] \notin {"upgraded", "done"}

\* C28: once the creation callback of a connect has thrown, the connect
\* does not resolve and opens no handle; its next event is the rejection
\* with the connection error, the database is left as it was before the
\* upgrade, and that rejection does come.
C28_ThrowingCallbackRejects ==
  /\ [][\A p \in Procs :
          /\ (~CallbackThrew(p) /\ CallbackThrew(p)') =>
               idb' = idb /\ call'[p].settles = 0
          /\ (CallbackThrew(p) /\ pc[p] # "failed") =>
               /\ idb'.conn[p] = idb.conn[p]
               /\ idb'.version = idb.version /\ idb'.stores = idb.stores
               /\ \/ pc'[p] = pc[p] /\ call'[p] = call[p]
                  \/ /\ pc'[p] = "failed"
                     /\ call'[p].err = ErrConnect
                     /\ call'[p].settles = 1]_vars
  /\ \A p \in Procs :
       CallbackThrew(p) ~> (pc[p] = "failed" /\ call[p].err = ErrConnect)

\* a connect to a higher version whose callback creates the store the
\* database already has was rejected with the connection error; the
\* database has the version it had
C28_Witness ==
  /\ pc["p2"] = "failed" /\ call["p2"].op = "connect"
  /\ call["p2"].arg.createFunc = "create" /\ call["p2"].arg.version = 2
  /\ call["p2"].cbs = 1
  /\ call["p2"].err = ErrConnect
  /\ idb.conn["p2"] # "open"
  /\ idb.version = 1 /\ StoreName \in idb.stores

\* ---- C29 ----
\* C29: while a connection is open a pending drop does not resolve: it
\* stays pending, its blocked event settling nothing, or it rejects with
\* the drop error; a connection stops being open only by its holder's own
\* close; and a drop that resolves does so with true when no connection is
\* open, the database and its records being gone.
C29_DropWaitsForClose ==
  [][\A p \in Procs :
       /\ (pc[p] = "drop" /\ AnyOpen) =>
            \/ pc'[p] = "drop" /\ call'[p].settles = 0 /\ idb'.version = idb.version
            \/ pc'[p] = "failed" /\ call'[p].err = ErrDrop /\ idb'.version = idb.version
       /\ (idb.conn[p] = "open" /\ idb'.conn[p] # "open") =>
            pc[p] # "drop" /\ call'[p].op = "close" /\ call'[p].arg["db"] = p
       /\ (pc[p] = "drop" /\ pc'[p] = "done") =>
            /\ ~AnyOpen
            /\ call'[p].ok /\ call'[p].settles = 1
            /\ idb'.version = 0 /\ idb'.stores = {}
            /\ Count(store') = 0
       /\ (pc[p] = "drop" /\ pc'[p] = "failed") => call'[p].err = ErrDrop]_vars

\* a drop that had its blocked event while the other caller's connection
\* was open has resolved true after that connection was closed
C29_Witness ==
  /\ pc["p2"] = "done" /\ call["p2"].op = "drop"
  /\ call["p2"].warns = 1
  /\ call["p2"].ok
  /\ idb.conn["p1"] = "closed"
  /\ idb.version = 0

\* ---- C30 ----
\* the step in which p calls close
CloseIssued(p) ==
  /\ pc[p] \in {"idle", "done", "failed"} /\ ops' = ops + 1
  /\ call'[p].op = "close"
  /\ \A q \in Procs \ {p} : call'[q] = call[q] /\ pc'[q] = pc[q]

\* C30: a close is settled in the step it is called in; with a null
\* handle it resolves false and database, connections and records are as
\* before; with a handle it resolves true, that handle is closed, and every
\* other handle is as before, one that was usable still usable, with the
\* database and its records unchanged.
C30_CloseOnlyOwnHandle ==
  [][\A p \in Procs :
       CloseIssued(p) =>
         /\ pc'[p] = "done" /\ call'[p].settles = 1
         /\ store' = store
         /\ idb'.version = idb.version /\ idb'.stores = idb.stores
         /\ IF call'[p].arg["db"] = NullHandle
            THEN ~call'[p].ok /\ idb' = idb
            ELSE /\ call'[p].ok
                 /\ idb'.conn[p] = "closed"
                 /\ \A q \in Procs \ {p} :
                      /\ idb'.conn[q] = idb.conn[q]
                      /\ Usable(q) => Usable(q)']_vars

\* one caller has closed its handle and the other, whose handle is open,
\* has upserted a record
C30_Witness ==
  /\ pc["p1"] = "done" /\ call["p1"].op = "close"
  /\ call["p1"].ok /\ call["p1"].arg["db"] = "p1"
  /\ idb.conn["p1"] = "closed" /\ idb.conn["p2"] = "open"
  /\ pc["p2"] = "done" /\ call["p2"].op = "upsert"
  /\ Count(store) = 1

WriteInFlight(p) ==
  /\ call[p].op \in {"upsert", "delete", "clear"}
  /\ pc[p] \in {"get", "put", "del", "clr"}

\* C38: the stored records change in no step of a caller's upsert, delete
\* or clear but the one in which it resolves: not when the call is issued,
\* not when its internal get returns, and not when the call rejects,
\* whether at its internal get or at its put, delete or clear request. So
\* a write that rejects leaves the records that were stored when it was
\* called.
C38_FailedWriteChangesNothing ==
  [][\A p \in Procs :
       /\ (CallIssued(p) /\ call'[p].op \in {"upsert", "delete", "clear"}) =>
            store' = store
       /\ (WriteInFlight(p) /\ pc'[p] # "done") => store' = store
       /\ (WriteInFlight(p) /\ pc'[p] = "failed") =>
            /\ store' = store
            /\ call'[p].err # ""
            /\ ~call'[p].ok /\ call'[p].res = EmptyStr]_vars

\* a logical delete of a stored record was rejected at its put, after its
\* internal get had read the record: the record is stored as it was read
C38_Witness ==
  /\ pc["p1"] = "failed" /\ call["p1"].op = "delete" /\ call["p1"].logical
  /\ call["p1"].err = ErrUpsert
  /\ Truthy(call["p1"].exist, "id")
  /\ Get(store, call["p1"].key) = call["p1"].exist
  /\ ~Truthy(Get(store, call["p1"].key), "is_delete")

\* ---- C36 ----
\* get(id) shows a deleted state: the empty object or a soft-deleted record
ShowsDeleted(st, id) == Get(st, id) = EmptyObj \/ Truthy(Get(st, id), "is_delete")

\* p's upsert, about to put, is a partial one on id that names neither
\* is_delete nor deleted, and has read, in its internal get, a state of id
\* that was not the deleted one stored now
StaleUpsert(p, id) ==
  /\ pc[p] = "put" /\ call[p].op = "upsert"
  /\ Truthy(call[p].rec, "id") /\ call[p].rec["id"] = id
  /\ "is_delete" \notin DOMAIN call[p].rec /\ "deleted" \notin DOMAIN call[p].rec
  /\ call[p].exist # Get(store, id)

\* q's last call is a delete of id that has resolved
DeleteResolved(q, id) ==
  /\ pc[q] = "done" /\ call[q].op = "delete" /\ call[q].ok
  /\ call[q].key = id /\ id # EmptyStr

\* C36 as stated: when a delete of id has resolved and get(id) shows the
\* deleted state, the put of a partial upsert on id that was in flight
\* with an older state of id leaves get(id) showing the deleted state.
C36_DeleteNotUndone ==
  [][\A p \in Procs : \A q \in Procs \ {p} : \A id \in KnownKeys :
       (/\ DeleteResolved(q, id) /\ ShowsDeleted(store, id)
        /\ StaleUpsert(p, id) /\ PutLands(p)) =>
         ShowsDeleted(store', id)]_vars

\* C36 amended: a resolved delete of id is undone by an upsert on id that
\* was in flight. When the put of a partial upsert that had read an older,
\* not soft-deleted state of id lands after the delete, get(id) shows the
\* record the upsert built from what it had read, with is_delete false.
\* The deleted state of an id ends only in the step in which an upsert on
\* that id resolves, and a partial upsert that names neither is_delete nor
\* deleted ends a logical delete only when the record its get had read
\* was not soft-deleted.
C36_DeleteUndoneByStaleUpsert ==
  [][\A id \in KnownKeys :
       /\ \A p \in Procs : \A q \in Procs \ {p} :
            (/\ DeleteResolved(q, id) /\ ShowsDeleted(store, id)
             /\ StaleUpsert(p, id) /\ ~Truthy(call[p].exist, "is_delete")
             /\ PutLands(p)) =>
              /\ ~ShowsDeleted(store', id)
              /\ Get(store', id) = call[p].merge
              /\ call'[p].res = id
       /\ (ShowsDeleted(store, id) /\ ~ShowsDeleted(store', id)) =>
            \E p \in Procs :
              /\ PutLands(p) /\ call[p].op = "upsert"
              /\ call[p].merge["id"] = id
              /\ (/\ Truthy(Get(store, id), "is_delete")
                  /\ "is_delete" \notin DOMAIN call[p].rec) =>
                   ~Truthy(call[p].exist, "is_delete")]_vars

\* a logical delete of id has resolved true and an upsert {id, b} whose
\* get had found nothing has resolved after it: get(id) shows a record
\* that is not deleted
C36_Witness ==
  /\ pc["p2"] = "done" /\ call["p2"].op = "delete" /\ call["p2"].logical
  /\ call["p2"].ok /\ call["p2"].key # EmptyStr
  /\ pc["p1"] = "done" /\ call["p1"].op = "upsert"
  /\ DOMAIN call["p1"].rec = {"id", "b"}
  /\ call["p1"].rec["id"] = call["p2"].key
  /\ call["p1"].exist = EmptyObj
  /\ ~ShowsDeleted(store, call["p2"].key)

\* ---- C31 ----
ReadOps == {"get", "count", "list", "select"}
WriteOps == {"upsert", "delete", "clear"}

\* p's call has a transaction open
HasTransaction(p) == pc[p] \in {"get", "put", "del", "clr", "read", "scan"}

\* the step is one of p's read: the call, its cursor steps, its resolution
ReadStep(p) ==
  /\ call'[p].op \in ReadOps
  /\ pc'[p] \in {"read", "scan", "done"}
  /\ call'[p] # call[p] \/ pc'[p] # pc[p]

\* C31: get, count, list and select open only readonly transactions, and no
\* step of a read changes a stored record or the collections, whatever
\* the other caller has in flight; a readwrite transaction is one of
\* upsert, delete or clear, and the stored records change only in the step
\* in which the request of a readwrite transaction succeeds.
C31_ReadsArePure ==
  [][/\ \A p \in Procs :
          /\ (HasTransaction(p)' /\ call'[p].op \in ReadOps) => call'[p].mode = "readonly"
          /\ (HasTransaction(p)' /\ call'[p].mode = "readwrite") => call'[p].op \in WriteOps
          /\ (HasTransaction(p)' /\ call'[p].op \in WriteOps) =>
                call'[p].mode = IF pc'[p] = "get" THEN "readonly" ELSE "readwrite"
          /\ ReadStep(p) => store' = store /\ idb' = idb
     /\ store' # store =>
          \E p \in Procs :
            /\ pc[p] \in {"put", "del", "clr"} /\ pc'[p] = "done"
            /\ call[p].mode = "readwrite" /\ call[p].op \in WriteOps]_vars

\* a select has visited every record and resolved while the upsert of the
\* other caller, on a record the select returned, waits to put
C31_Witness ==
  /\ pc["p2"] = "done" /\ call["p2"].op = "select"
  /\ call["p2"].pos = Count(store) /\ Len(call["p2"].out) > 0
  /\ pc["p1"] = "put" /\ call["p1"].op = "upsert"
  /\ Truthy(call["p1"].exist, "id")
  /\ store # [k \in {} |-> EmptyObj]

\* ---- C32 ----
\* p's call has settled
Settled(p) == pc[p] \in {"done", "failed"}

\* C32: when the engine eventually fires success or error for each request,
\* every call that has a request outstanding eventually settles. A select
\* moves its cursor one record at a time through the collection and resolves,
\* with every record visited, in the step in which the cursor is exhausted;
\* an upsert or a logical delete that resolves has had its get (when its
\* input carries an id) and its put answered.
C32_EveryCallSettles ==
  /\ \A p \in Procs : HasTransaction(p) ~> Settled(p)
  /\ [][\A p \in Procs :
          /\ (pc[p] = "scan" /\ pc'[p] = "scan" /\ call'[p] # call[p]) =>
                /\ call'[p].pos = call[p].pos + 1
                /\ call'[p].pos <= Count(store)
                /\ store' = store
          /\ (pc[p] = "scan" /\ pc'[p] = "done") =>
                /\ call[p].pos = Count(store)
                /\ call'[p].pos = call[p].pos
                /\ call'[p].out =
                     SelectScan(store, SortedKeys(DOMAIN store), call[p].arg.where,
                                call[p].arg.includeDeleted, <<>>)
          /\ (HasTransaction(p) /\ pc'[p] = "done"
                /\ (call[p].op = "upsert" \/ (call[p].op = "delete" /\ call[p].logical))) =>
                /\ pc[p] = "put"
                /\ call[p].txs = IF Truthy(call[p].rec, "id") THEN 2 ELSE 1]_vars

\* a select has resolved with the records it visited, and a logical delete
\* issued beside it has resolved after its get and its put
C32_Witness ==
  /\ pc["p1"] = "done" /\ call["p1"].op = "select"
  /\ call["p1"].pos = 1 /\ Len(call["p1"].out) = 1
  /\ pc["p2"] = "done" /\ call["p2"].op = "delete" /\ call["p2"].logical
  /\ call["p2"].txs = 2 /\ call["p2"].ok

\* ---- C34 ----
\* C34: in the step in which a call is made and the engine throws when the
\* call opens its request (indexedDB.open, deleteDatabase, db.transaction),
\* the call has settled when it returns: its promise is rejected, once,
\* with the exception the engine threw, no request or transaction is left
\* waiting, and the records and the database are as before the call.
C34_ThrowRejects ==
  [][\A p \in Procs :
       (ops' = ops + 1 /\ call'[p].thrown # "") =>
         /\ pc'[p] = "failed"
         /\ call'[p].settles = 1
         /\ call'[p].err = call'[p].thrown
         /\ call'[p].txs = 0
         /\ store' = store /\ idb' = idb /\ txq' = txq]_vars

\* a physical delete called on the closed handle of a database that holds
\* a record has rejected with the exception of db.transaction
C34_Witness ==
  /\ pc["p1"] = "failed" /\ call["p1"].op = "delete" /\ ~call["p1"].logical
  /\ call["p1"].thrown = ErrClosedHandle /\ call["p1"].err = ErrClosedHandle
  /\ Count(store) = 1

\* ---- C35 ----
NoRecords == [k \in {} |-> EmptyObj]

\* C35: drop resolves true only when no handle is open, and leaves no
\* database: no version, no collection, no record. A connect that finds no
\* database never resolves without an upgrade, whatever version it asks
\* for: the engine fires upgradeneeded, the creation callback, when given,
\* runs once, and with a callback that creates the collection the connect
\* resolves with a handle on a database that has the collection and holds
\* no record.
C35_DropDeletesDatabase ==
  [][/\ idb'.version = 0 => (store' = NoRecords /\ idb'.stores = {})
     /\ \A p \in Procs :
          /\ (pc[p] = "drop" /\ pc'[p] = "done") =>
                /\ ~AnyOpen /\ call'[p].ok
                /\ idb'.version = 0 /\ idb'.stores = {} /\ store' = NoRecords
          /\ (pc[p] = "open" /\ idb.version = 0) => pc'[p] # "done"
          /\ (pc[p] = "open" /\ idb.version = 0 /\ pc'[p] \in {"upgraded", "aborted"}) =>
                /\ call'[p].cbs = IF call[p].arg.createFunc = "none" THEN 0 ELSE 1
                /\ store' = NoRecords
                /\ call[p].arg.createFunc = "create" =>
                     /\ pc'[p] = "upgraded"
                     /\ idb'.stores = {StoreName}
                     /\ idb'.version = DbVersion(call[p].arg.version)
          /\ (pc[p] = "upgraded" /\ pc'[p] = "done") =>
                /\ idb'.conn[p] = "open"
                /\ idb'.stores = idb.stores /\ idb'.version = idb.version
                /\ store' = store]_vars

\* connect, upsert, close, drop and connect with the same version and
\* callback: the callback has run again, the collection exists and the
\* record stored before the drop is gone
C35_Witness ==
  /\ pc["p1"] = "done" /\ call["p1"].op = "connect"
  /\ call["p1"].arg.version = 1 /\ call["p1"].arg.createFunc = "create"
  /\ call["p1"].cbs = 1
  /\ genCount = 1 /\ ops = 5
  /\ idb.version = 1 /\ idb.stores = {StoreName} /\ idb.conn["p1"] = "open"
  /\ store = NoRecords

\* ---- C37 ----
\* every id but id has in t the record it has in s
SameButAt(s, t, id) ==
  \A k \in ((DOMAIN s) \cup (DOMAIN t)) \ {id} : Get(t, k) = Get(s, k)

\* C37: when the callers write to pairwise distinct ids, the ids the
\* generator returns included, no write interferes with another. The
\* record an upsert or a logical delete has read is still the stored one
\* when its put lands, so the record it stores is the one it would store
\* if it ran alone at that moment; the put changes the record of its own
\* id only and the call resolves with that id, or true for a delete; a
\* physical delete removes the record of its own key only and resolves
\* true.
C37_DistinctIdsIndependent ==
  [][\A p \in Procs :
       /\ pc'[p] = "put" => Get(store', call'[p].merge["id"]) = call'[p].exist
       /\ PutLands(p) =>
            /\ Unraced(p)
            /\ Get(store', call[p].merge["id"]) = call[p].merge
            /\ SameButAt(store, store', call[p].merge["id"])
            /\ call'[p].res = call[p].merge["id"]
            /\ Truthy(call[p].rec, "id") => call'[p].res = call[p].rec["id"]
            /\ ~Truthy(call[p].rec, "id") => call[p].merge["id"] \notin DOMAIN store
            /\ call[p].op = "delete" => (call'[p].ok /\ call[p].merge["id"] = call[p].key)
       /\ DeleteLands(p) =>
            /\ Get(store', call[p].key) = EmptyObj
            /\ SameButAt(store, store', call[p].key)
            /\ call'[p].ok]_vars

\* both callers have read and written side by side: p1 a partial update of
\* the stored record, p2 a logical delete of its own id; each call has
\* resolved and both records are stored
C37_Witness ==
  /\ pc["p1"] = "done" /\ call["p1"].op = "upsert" /\ call["p1"].txs = 2
  /\ pc["p2"] = "done" /\ call["p2"].op = "delete" /\ call["p2"].logical
  /\ call["p2"].txs = 2 /\ call["p2"].ok
  /\ ops = 2
  /\ call["p1"].res = GenId(0) /\ call["p2"].key \in CallerKeys
  /\ Get(store, call["p1"].res)["b"] = 2
  /\ Truthy(Get(store, call["p2"].key), "is_delete")

\* ---- C39 ----
\* the step is one of p's call: the call itself, or an event of a request
\* of it
StepOf(p) == call'[p] # call[p] \/ pc'[p] # pc[p]

\* C39: every step of a call leaves the records of the object store the
\* call does not name as they are, the steps of the internal get and put
\* of upsert and of a logical delete included, and no step adds or removes
\* an object store. A call made through a store defined or bound for the
\* first object store names that object store.
C39_ConfinedToCollection ==
  [][/\ idb'.stores = idb.stores
     /\ \A p \in Procs :
          /\ call'[p].via = "store" => call'[p].coll = StoreName
          /\ StepOf(p) =>
               /\ call'[p].coll \in Colls
               /\ pc[p] \notin {"idle", "done", "failed"} => call'[p].coll = call[p].coll
               /\ IF call'[p].coll = StoreName
                  THEN idb'.other = idb.other
                  ELSE store' = store]_vars

\* the caller has upserted { id, b: 2 } into the second object store and
\* then soft-deleted the record of the same id through a store defined for
\* the first: each object store holds its own change and not the other's
C39_Witness ==
  /\ pc["p1"] = "done" /\ call["p1"].op = "delete" /\ call["p1"].via = "store"
  /\ call["p1"].logical /\ call["p1"].key = GenId(0) /\ call["p1"].txs = 2
  /\ Truthy(Get(idb.other, GenId(0)), "id") /\ Truthy(Get(store, GenId(0)), "id")
  /\ Get(idb.other, GenId(0))["b"] = 2
  /\ ~Truthy(Get(idb.other, GenId(0)), "is_delete")
  /\ Get(store, GenId(0))["b"] = 1
  /\ Truthy(Get(store, GenId(0)), "is_delete")

====
